---- MODULE Spec2Model ----
(***************************************************************************)
(* Model of the wekactl scale lambda (internal/aws/lambdas/scale/scale.go) *)
(* One tick of Handler is a run of the state machine Spec; the pure        *)
(* functions of the planner and of the classifier are also exercised on    *)
(* their own under SpecTarget and SpecDerive.                              *)
(***************************************************************************)
EXTENDS Integers, Sequences, FiniteSets, TLC

VARIABLES
    info,             \* protocol.HostGroupInfoResponse given to Handler
    pc,               \* position of Handler inside the tick
    err,              \* Handler's named return value err ("" is nil)
    calls,            \* every jpool.Call / jpool.Drop made so far, in order
    response,         \* protocol.ScaleResponse being built
    systemStatus,     \* reply of the status call
    hostsApiList,     \* reply of the host list call
    driveApiList,     \* reply of the drive list call
    hostsMap,         \* Handler's map `hosts`, built from the three replies
    hostsList,        \* in-scope hosts (sorted once the snapshot is built)
    inactiveHosts,    \* hosts queued for removal
    downHosts,        \* hosts queued for forced deactivation
    numToDeactivate,  \* result of getNumToDeactivate
    cur,              \* loop position inside the mutating phase
    fnIn,             \* input of a pure function run (SpecTarget, SpecDerive)
    fnOut             \* its result

vars == <<info, pc, err, calls, response, systemStatus, hostsApiList, driveApiList,
          hostsMap, hostsList, inactiveHosts, downHosts, numToDeactivate, cur,
          fnIn, fnOut>>

handlerVars == <<info, pc, err, calls, response, systemStatus, hostsApiList, driveApiList,
                 hostsMap, hostsList, inactiveHosts, downHosts, numToDeactivate, cur>>

(***************************************************************************)
(* Bounds of the model                                                     *)
(***************************************************************************)
MaxListLen == 7        \* longest host list given to getNumToDeactivate alone
MaxTargetDesired == 5  \* largest desired capacity given to it
MaxDriveSlots == 2     \* drives per host when deriveHostState runs alone

(***************************************************************************)
(* Program constants                                                       *)
(***************************************************************************)
DEACTIVATING == 0
UNHEALTHY == 1
HEALTHY == 2
ScaleStates == {DEACTIVATING, UNHEALTHY, HEALTHY}

\* durations in minutes
unhealthyDeactivateTimeout == 120
backendCleanupDelay == 5
downKickOutTimeout == 3 * 60

NoState == 99          \* no scale state: the function has not returned yet

(***************************************************************************)
(* Library helpers used by scale.go                                        *)
(***************************************************************************)
Max(a, b) == IF a > b THEN a ELSE b
Min(a, b) == IF a < b THEN a ELSE b
AnyOf(s, options) == s \in options
IsManagement(nodeId) == nodeId.mgmt

(***************************************************************************)
(* hostInfo methods                                                        *)
(***************************************************************************)
belongsToHg(host, instances) ==
    \E k \in 1..Len(instances) : host.InstanceId = instances[k].Id

belongsToHgIpBased(host, instances) ==
    \E k \in 1..Len(instances) : host.HostIp = instances[k].PrivateIp

numNotHealthyDrives(host) ==
    Cardinality({d \in DOMAIN host.drives : AnyOf(host.drives[d].Status, {"INACTIVE"})})

\* Faulty variant: ret starts out true, so an empty drive map satisfies it.
allDisksBeingRemoved_vacuous(host) ==
    IF \E d \in DOMAIN host.drives : host.drives[d].ShouldBeActive
    THEN FALSE
    ELSE TRUE

allDisksBeingRemoved(host) ==
    IF \E d \in DOMAIN host.drives : host.drives[d].ShouldBeActive
    THEN FALSE
    ELSE DOMAIN host.drives # {}

anyDiskBeingRemoved(host) ==
    \E d \in DOMAIN host.drives : ~host.drives[d].ShouldBeActive

\* Faulty variant: a drive told to deactivate counts as inactive.
allDrivesInactive_flagBased(host) ==
    ~(\E d \in DOMAIN host.drives : host.drives[d].ShouldBeActive)

allDrivesInactive(host) ==
    ~(\E d \in DOMAIN host.drives : host.drives[d].Status # "INACTIVE")

managementTimedOut(host, timeout) ==
    \E n \in DOMAIN host.nodes :
        /\ IsManagement(n)
        /\ host.nodes[n].Status = "DOWN"
        /\ host.nodes[n].DownMinutes > timeout

(***************************************************************************)
(* Planner                                                                 *)
(***************************************************************************)
\* Faulty variants of calculateDeactivateTarget, used to test the properties.
calculateDeactivateTarget_maxSlip(nHealthy, nUnhealthy, nDeactivating, desired) ==
    LET ret == Max(nHealthy + nUnhealthy + nDeactivating - desired,
                   Max(2 - nDeactivating, nUnhealthy))
    IN  Max(nDeactivating, ret)

calculateDeactivateTarget_noFloor(nHealthy, nUnhealthy, nDeactivating, desired) ==
    Max(nHealthy + nUnhealthy + nDeactivating - desired,
        Min(2 - nDeactivating, nUnhealthy))

calculateDeactivateTarget_cap3(nHealthy, nUnhealthy, nDeactivating, desired) ==
    LET ret == Max(nHealthy + nUnhealthy + nDeactivating - desired,
                   Min(3 - nDeactivating, nUnhealthy))
    IN  Max(nDeactivating, ret)

calculateDeactivateTarget_uncapped(nHealthy, nUnhealthy, nDeactivating, desired) ==
    LET ret == Max(nHealthy + nUnhealthy + nDeactivating - desired, 2 - nDeactivating)
    IN  Max(nDeactivating, ret)

calculateDeactivateTarget_noSurplus(nHealthy, nUnhealthy, nDeactivating, desired) ==
    Max(nDeactivating, Min(2 - nDeactivating, nUnhealthy))

calculateDeactivateTarget(nHealthy, nUnhealthy, nDeactivating, desired) ==
    LET ret == Max(nHealthy + nUnhealthy + nDeactivating - desired,
                   Min(2 - nDeactivating, nUnhealthy))
    IN  Max(nDeactivating, ret)

RECURSIVE countState(_, _, _)
countState(hostInfo, state, k) ==
    IF k > Len(hostInfo) THEN 0
    ELSE (IF hostInfo[k].scaleState = state THEN 1 ELSE 0)
         + countState(hostInfo, state, k + 1)

getNumToDeactivate(hostInfo, desired) ==
    LET nHealthy == countState(hostInfo, HEALTHY, 1)
        nUnhealthy == countState(hostInfo, UNHEALTHY, 1)
        nDeactivating == countState(hostInfo, DEACTIVATING, 1)
    IN  calculateDeactivateTarget(nHealthy, nUnhealthy, nDeactivating, desired)

(***************************************************************************)
(* Classifier                                                              *)
(***************************************************************************)
\* Faulty variant: the DOWN rule is tried before the lifecycle-state rule.
deriveHostState_downFirst(host) ==
    IF allDisksBeingRemoved(host) THEN DEACTIVATING
    ELSE IF host.Status = "DOWN" /\ managementTimedOut(host, unhealthyDeactivateTimeout)
         THEN UNHEALTHY
    ELSE IF AnyOf(host.State, {"DEACTIVATING", "REMOVING", "INACTIVE"}) THEN DEACTIVATING
    ELSE IF numNotHealthyDrives(host) > 0 \/ anyDiskBeingRemoved(host) THEN UNHEALTHY
    ELSE HEALTHY

deriveHostState(host) ==
    IF allDisksBeingRemoved(host) THEN DEACTIVATING
    ELSE IF AnyOf(host.State, {"DEACTIVATING", "REMOVING", "INACTIVE"}) THEN DEACTIVATING
    ELSE IF host.Status = "DOWN" /\ managementTimedOut(host, unhealthyDeactivateTimeout)
         THEN UNHEALTHY
    ELSE IF numNotHealthyDrives(host) > 0 \/ anyDiskBeingRemoved(host) THEN UNHEALTHY
    ELSE HEALTHY

calculateHostsState(hosts) ==
    [k \in 1..Len(hosts) |-> [hosts[k] EXCEPT !.scaleState = deriveHostState(hosts[k])]]

(***************************************************************************)
(* Values the pure function runs draw their inputs from                    *)
(***************************************************************************)
HostStates == {"ACTIVE", "DEACTIVATING", "REMOVING", "INACTIVE"}
HostStatuses == {"UP", "DOWN"}
DriveStatuses == {"ACTIVE", "INACTIVE"}
DownDurations == {120, 121, 181}   \* minutes since a DOWN node was fenced

PartialFns(D, R) == UNION {[S -> R] : S \in SUBSET D}

NodeValues(h) ==
    {[HostId |-> h, Status |-> "UP", DownMinutes |-> 0]}
    \cup {[HostId |-> h, Status |-> "DOWN", DownMinutes |-> m] : m \in DownDurations}

NodeIdsOf(h) == {[host |-> h, mgmt |-> TRUE], [host |-> h, mgmt |-> FALSE]}

DriveValues(h) ==
    {[Uuid |-> 0, HostId |-> h, Status |-> st, ShouldBeActive |-> sba] :
        st \in DriveStatuses, sba \in BOOLEAN}

DeriveInputs ==
    {[id |-> 1, State |-> state, Status |-> status, InstanceId |-> "i-1",
      HostIp |-> "ip-1", AddedTime |-> 1, StateChangedMinutes |-> 0,
      drives |-> drives, nodes |-> nodes, scaleState |-> DEACTIVATING] :
        state \in HostStates, status \in HostStatuses,
        drives \in PartialFns(1..MaxDriveSlots, DriveValues(1)),
        nodes \in PartialFns(NodeIdsOf(1), NodeValues(1))}

TargetInputs ==
    {[hostInfo |-> l, desired |-> t] :
        l \in UNION {[1..n -> [scaleState : ScaleStates]] : n \in 0..MaxListLen},
        t \in 0..MaxTargetDesired}

NoTick ==
    /\ info = [Role |-> "", DesiredCapacity |-> 0, Instances |-> <<>>]
    /\ err = ""
    /\ calls = <<>>
    /\ response = [Hosts |-> <<>>, ToTerminate |-> <<>>, TransientErrors |-> <<>>]
    /\ systemStatus = [IoStatus |-> "", Upgrade |-> ""]
    /\ hostsApiList = <<>>
    /\ driveApiList = <<>>
    /\ hostsMap = <<>>
    /\ hostsList = <<>>
    /\ inactiveHosts = <<>>
    /\ downHosts = <<>>
    /\ numToDeactivate = 0
    /\ cur = <<>>

(***************************************************************************)
(* getNumToDeactivate run on its own                                       *)
(***************************************************************************)
InitTarget ==
    /\ NoTick
    /\ pc = "in"
    /\ fnIn \in TargetInputs
    /\ fnOut = NoState

RunGetNumToDeactivate ==
    /\ pc = "in"
    /\ pc' = "out"
    /\ fnOut' = getNumToDeactivate(fnIn.hostInfo, fnIn.desired)
    /\ UNCHANGED <<info, err, calls, response, systemStatus, hostsApiList,
                   driveApiList, hostsMap, hostsList, inactiveHosts, downHosts,
                   numToDeactivate, cur, fnIn>>

NextTarget == RunGetNumToDeactivate

SpecTarget == InitTarget /\ [][NextTarget]_vars

(***************************************************************************)
(* deriveHostState run on its own                                          *)
(***************************************************************************)
InitDerive ==
    /\ NoTick
    /\ pc = "in"
    /\ fnIn \in DeriveInputs
    /\ fnOut = NoState

RunDeriveHostState ==
    /\ pc = "in"
    /\ pc' = "out"
    /\ fnOut' = deriveHostState(fnIn)
    /\ UNCHANGED <<info, err, calls, response, systemStatus, hostsApiList,
                   driveApiList, hostsMap, hostsList, inactiveHosts, downHosts,
                   numToDeactivate, cur, fnIn>>

NextDerive == RunDeriveHostState

SpecDerive == InitDerive /\ [][NextDerive]_vars

(***************************************************************************)
(* Bounds of a tick                                                        *)
(***************************************************************************)
GroupSize == 2     \* instances of the host group
MaxDesired == 2    \* largest desired capacity
MaxSnapshotSize == 4   \* size of a snapshot: its drives plus twice its hosts

(***************************************************************************)
(* Inputs of a tick.  Instance ids and IPs are numbered by machine;        *)
(* instance id 0 stands for the empty string of a host that lost its id.   *)
(***************************************************************************)
NoInstanceId == 0
OrphanHostId == 0 - 1
AbsentHostId == 9       \* owner of a drive or node that is in no host list
OutsideMachine == GroupSize + 1

HgInstance(m) == [Id |-> m, PrivateIp |-> 100 + m]

Infos ==
    {[Role |-> role, DesiredCapacity |-> t,
      Instances |-> [m \in 1..GroupSize |-> HgInstance(m)]] :
        role \in {"backend", "client"}, t \in 0..MaxDesired}

StatusReplies ==
    {[IoStatus |-> io, Upgrade |-> up] : io \in {"STARTED", "STOPPED"}, up \in {"", "4.0.1"}}

Host(state, status, instanceId, m, added, changed) ==
    [State |-> state, Status |-> status, InstanceId |-> instanceId,
     HostIp |-> 100 + m, AddedTime |-> added, StateChangedMinutes |-> changed]

\* Hosts running on machine m of the group.
MemberHosts(m) ==
    {Host("ACTIVE", "UP", m, m, added, 0) : added \in {0, 1}}
    \cup {Host("DEACTIVATING", "UP", m, m, 1, 0)}
    \cup {Host("ACTIVE", "DOWN", id, m, 1, 0) : id \in {m, NoInstanceId}}
    \cup {Host("ACTIVE", "UP", NoInstanceId, m, 1, 0)}
    \cup {Host("INACTIVE", "DOWN", NoInstanceId, m, 1, backendCleanupDelay)}

\* Hosts of another host group.
OutsideHosts ==
    {Host("ACTIVE", status, OutsideMachine, OutsideMachine, 1, 0) : status \in HostStatuses}
    \cup {Host("INACTIVE", "DOWN", NoInstanceId, OutsideMachine, 1, changed) :
            changed \in {backendCleanupDelay, backendCleanupDelay + 1}}

\* Host ids are interchangeable, so host h is placed on one of the first h
\* machines of the group or outside of it.
HostChoices(h) ==
    UNION {MemberHosts(m) : m \in 1..Min(h, GroupSize)} \cup OutsideHosts

RECURSIVE HostLists(_)
HostLists(n) ==
    IF n = 0 THEN {<<>>}
    ELSE {Append(l, x) : l \in HostLists(n - 1), x \in HostChoices(n)}

HostListReplies == UNION {HostLists(n) : n \in 0..(MaxSnapshotSize \div 2)}

Drive(d, h, status, sba) ==
    [Uuid |-> d, HostId |-> h, Status |-> status, ShouldBeActive |-> sba]

DriveChoices(d, hostIds) ==
    {Drive(d, h, st, sba) : h \in hostIds, st \in DriveStatuses, sba \in BOOLEAN}
    \cup {Drive(d, OrphanHostId, st, FALSE) : st \in DriveStatuses}
    \cup {Drive(d, AbsentHostId, "ACTIVE", TRUE)}

\* Drive uuids are interchangeable, so a reply lists its drives in the order
\* of (owner, status, flag).
driveRank(drive) ==
    4 * (drive.HostId + 1)
    + (IF drive.Status = "INACTIVE" THEN 2 ELSE 0)
    + (IF drive.ShouldBeActive THEN 1 ELSE 0)

RECURSIVE DriveLists(_, _)
DriveLists(n, hostIds) ==
    IF n = 0 THEN {<<>>}
    ELSE UNION {{Append(l, x) : x \in {y \in DriveChoices(n, hostIds) :
                                          n = 1 \/ driveRank(l[n - 1]) <= driveRank(y)}} :
                l \in DriveLists(n - 1, hostIds)}

DriveListReplies(hostIds) ==
    UNION {DriveLists(n, hostIds) : n \in 0..(MaxSnapshotSize - 2 * Cardinality(hostIds))}

\* The management node of a host is UP when the host is UP and DOWN (fenced
\* some minutes ago) when the host is DOWN; every host also has a
\* non-management node that went down long ago.
ManagementNodeChoices(h, host) ==
    IF host.Status = "UP" THEN {[HostId |-> h, Status |-> "UP", DownMinutes |-> 0]}
    ELSE IF host.State = "INACTIVE"
         THEN {[HostId |-> h, Status |-> "DOWN", DownMinutes |-> downKickOutTimeout + 1]}
    ELSE {[HostId |-> h, Status |-> "DOWN", DownMinutes |-> m] : m \in DownDurations}

OtherNode(h) ==
    [HostId |-> h, Status |-> "DOWN", DownMinutes |-> downKickOutTimeout + 20]

RECURSIVE ManagementNodes(_, _)
ManagementNodes(hostList, n) ==
    IF n = 0 THEN {<<>>}
    ELSE {Append(l, x) : l \in ManagementNodes(hostList, n - 1),
                         x \in ManagementNodeChoices(n, hostList[n])}

NodeListReplies(hostList) ==
    {[n \in UNION {NodeIdsOf(h) : h \in DOMAIN hostList \cup {AbsentHostId}} |->
        IF n.mgmt /\ n.host \in DOMAIN hostList THEN g[n.host] ELSE OtherNode(n.host)] :
     g \in ManagementNodes(hostList, Len(hostList))}

(***************************************************************************)
(* Handler: building the snapshot                                          *)
(***************************************************************************)
\* Faulty variant: the upgrade check is missing.
isAllowedToScale_noUpgrade(status) ==
    IF status.IoStatus # "STARTED" THEN "io status, aborting scale"
    ELSE ""

isAllowedToScale(status) ==
    IF status.IoStatus # "STARTED" THEN "io status, aborting scale"
    ELSE IF status.Upgrade # "" THEN "upgrade is running, aborting scale"
    ELSE ""

\* lines 185-204: the host map with the drives and nodes of each host
hostInfoMap(hostList, driveList, nodeList) ==
    [h \in DOMAIN hostList |->
        [id |-> h, State |-> hostList[h].State, Status |-> hostList[h].Status,
         InstanceId |-> hostList[h].InstanceId, HostIp |-> hostList[h].HostIp,
         AddedTime |-> hostList[h].AddedTime,
         StateChangedMinutes |-> hostList[h].StateChangedMinutes,
         drives |-> [d \in {x \in DOMAIN driveList : driveList[x].HostId = h} |-> driveList[d]],
         nodes |-> [n \in {x \in DOMAIN nodeList : nodeList[x].HostId = h} |-> nodeList[n]],
         scaleState |-> DEACTIVATING]]

\* Faulty variant: a host that lost its instance id is matched by IP whatever
\* its status is.
inScope_ipForAll(host, role, instances) ==
    IF host.State = "INACTIVE" THEN FALSE
    ELSE IF belongsToHg(host, instances) THEN TRUE
    ELSE belongsToHgIpBased(host, instances)

\* lines 210-234
inScope(host, role, instances) ==
    IF host.State = "INACTIVE" THEN FALSE
    ELSE IF belongsToHg(host, instances) THEN TRUE
    ELSE IF host.Status = "DOWN" THEN belongsToHgIpBased(host, instances)
    ELSE FALSE

\* Faulty variant: no grace window for an inactive host of the backend role.
queuedForRemoval_noGrace(host, role, instances) ==
    IF host.State = "INACTIVE"
    THEN IF belongsToHgIpBased(host, instances) THEN TRUE
         ELSE role = "backend"
    ELSE FALSE

queuedForRemoval(host, role, instances) ==
    IF host.State = "INACTIVE"
    THEN IF belongsToHgIpBased(host, instances) THEN TRUE
         ELSE role = "backend" /\ host.StateChangedMinutes > backendCleanupDelay
    ELSE FALSE

\* Faulty variant: the timeout of the UNHEALTHY rule is used.
queuedAsDown_shortTimeout(host, role) ==
    IF host.Status = "DOWN"
    THEN IF role = "backend"
         THEN host.State # "INACTIVE"
              /\ managementTimedOut(host, unhealthyDeactivateTimeout)
         ELSE FALSE
    ELSE FALSE

\* Faulty variant: the lifecycle state of a DOWN host is not looked at.
queuedAsDown_anyState(host, role) ==
    IF host.Status = "DOWN"
    THEN IF role = "backend"
         THEN managementTimedOut(host, downKickOutTimeout)
         ELSE FALSE
    ELSE FALSE

\* lines 236-244
queuedAsDown(host, role) ==
    IF host.Status = "DOWN"
    THEN IF role = "backend"
         THEN host.State # "INACTIVE" /\ managementTimedOut(host, downKickOutTimeout)
         ELSE FALSE
    ELSE FALSE

\* Faulty variant of the comparator: scale states compared the wrong way round.
less_reversed(a, b) ==
    IF a.scaleState > b.scaleState THEN TRUE
    ELSE IF a.scaleState < b.scaleState THEN FALSE
    ELSE IF numNotHealthyDrives(a) > numNotHealthyDrives(b) THEN TRUE
    ELSE IF numNotHealthyDrives(a) < numNotHealthyDrives(b) THEN FALSE
    ELSE a.AddedTime < b.AddedTime

\* Faulty variant: of two hosts in the same scale state the one with fewer
\* inactive drives goes first.
less_fewerDrivesFirst(a, b) ==
    IF a.scaleState < b.scaleState THEN TRUE
    ELSE IF a.scaleState > b.scaleState THEN FALSE
    ELSE IF numNotHealthyDrives(a) < numNotHealthyDrives(b) THEN TRUE
    ELSE IF numNotHealthyDrives(a) > numNotHealthyDrives(b) THEN FALSE
    ELSE a.AddedTime < b.AddedTime

\* Faulty variant: the added times are compared with "not after".
less_notStrict(a, b) ==
    IF a.scaleState < b.scaleState THEN TRUE
    ELSE IF a.scaleState > b.scaleState THEN FALSE
    ELSE IF numNotHealthyDrives(a) > numNotHealthyDrives(b) THEN TRUE
    ELSE IF numNotHealthyDrives(a) < numNotHealthyDrives(b) THEN FALSE
    ELSE a.AddedTime <= b.AddedTime

\* lines 249-268: the comparator given to sort.Slice
less(a, b) ==
    IF a.scaleState < b.scaleState THEN TRUE
    ELSE IF a.scaleState > b.scaleState THEN FALSE
    ELSE IF numNotHealthyDrives(a) > numNotHealthyDrives(b) THEN TRUE
    ELSE IF numNotHealthyDrives(a) < numNotHealthyDrives(b) THEN FALSE
    ELSE a.AddedTime < b.AddedTime

\* Every order a map iteration can produce for the members of S.
Orders(S) ==
    {l \in [1..Cardinality(S) -> S] : \A i, j \in DOMAIN l : i # j => l[i] # l[j]}

\* sort.Slice is not stable: any order that agrees with the comparator.
Sorted(l) == \A i, j \in DOMAIN l : i < j => ~less(l[j], l[i])

(***************************************************************************)
(* Handler: the record of calls and the response                           *)
(***************************************************************************)
CallEntry(method, arg, flag, ok) ==
    [op |-> "Call", method |-> method, arg |-> arg, flag |-> flag, ip |-> 0, ok |-> ok]

DropEntry(ip) ==
    [op |-> "Drop", method |-> "", arg |-> 0, flag |-> FALSE, ip |-> ip, ok |-> TRUE]

RpcError == "rpc failed"

EmptyResponse == [Hosts |-> <<>>, ToTerminate |-> <<>>, TransientErrors |-> <<>>]

\* Faulty variant: the new entry replaces the list instead of extending it.
AddTransientError_replace(r, e, caller) ==
    [r EXCEPT !.TransientErrors = <<caller \o ":" \o e>>]

AddTransientError(r, e, caller) ==
    [r EXCEPT !.TransientErrors = Append(@, caller \o ":" \o e)]

\* Faulty variant: the instance is not looked up by the IP of the host.
selectInstanceByIp_anyIp(ip, instances) ==
    IF instances = <<>> THEN <<>> ELSE <<instances[1]>>

RECURSIVE selectInstanceByIpFrom(_, _, _)
selectInstanceByIpFrom(ip, instances, k) ==
    IF k > Len(instances) THEN <<>>
    ELSE IF instances[k].PrivateIp = ip THEN <<instances[k]>>
    ELSE selectInstanceByIpFrom(ip, instances, k + 1)

\* the result is the empty sequence for nil, or the one instance found
selectInstanceByIp(ip, instances) == selectInstanceByIpFrom(ip, instances, 1)

\* Faulty variant: only the hosts the tick acts upon are reported.
responseHosts_actedUpon(hosts) ==
    [k \in 1..getNumToDeactivate(hosts, info.DesiredCapacity) |->
        [InstanceId |-> hosts[k].InstanceId, State |-> hosts[k].State,
         AddedTime |-> hosts[k].AddedTime, HostId |-> hosts[k].id]]

\* lines 310-317
responseHosts(hosts) ==
    [k \in 1..Len(hosts) |->
        [InstanceId |-> hosts[k].InstanceId, State |-> hosts[k].State,
         AddedTime |-> hosts[k].AddedTime, HostId |-> hosts[k].id]]

(***************************************************************************)
(* Handler: position inside the mutating phase (lines 270-308).            *)
(* cur.phase is the loop, cur.i the index of the host being handled,       *)
(* cur.stage what is to be done for it next, and cur.pending the drives    *)
(* that the running loop over a drive map has not visited yet.             *)
(***************************************************************************)
Idle == [phase |-> "idle", i |-> 0, stage |-> "", pending |-> {}]
Done == [phase |-> "done", i |-> 0, stage |-> "", pending |-> {}]

\* Faulty variant: the forced-down hosts are handled before the selected ones.
deactivateList_downFirst(phase, hl, dh, num) ==
    IF phase = "selected" THEN dh ELSE SubSeq(hl, 1, num)

\* the hosts a deactivateHost loop runs over
\* Faulty variant: every in-scope host is handed to deactivateHost.
deactivateList_wholeList(phase, hl, dh, num) ==
    IF phase = "selected" THEN hl ELSE dh

deactivateList(phase, hl, dh, num) ==
    IF phase = "selected" THEN SubSeq(hl, 1, num) ELSE dh

\* Faulty variant: the ShouldBeActive flag is not looked at.
drivesToDeactivate_all(host) == DOMAIN host.drives

\* drives for which deactivateHost issues a deactivate call
drivesToDeactivate(host) ==
    {d \in DOMAIN host.drives : host.drives[d].ShouldBeActive}

\* Faulty variant: the status of an orphan drive is not looked at.
oldDrives_anyStatus(driveList) ==
    {d \in DOMAIN driveList : driveList[d].HostId = OrphanHostId}

\* drives removeOldDrives removes
oldDrives(driveList) ==
    {d \in DOMAIN driveList :
        driveList[d].HostId = OrphanHostId /\ driveList[d].Status = "INACTIVE"}

enterDeactivate(phase, i, hl, dh, num) ==
    LET list == deactivateList(phase, hl, dh, num)
    IN  [phase |-> phase, i |-> i, stage |-> "drives",
         pending |-> IF i <= Len(list) THEN drivesToDeactivate(list[i]) ELSE {}]

\* Moves past finished loops up to the next call Handler makes.
RECURSIVE settle(_, _, _, _, _, _)
settle(c, hl, ih, dh, num, driveList) ==
    IF c.phase = "removeInactive" THEN
        IF c.stage = "host" THEN
            IF c.i > Len(ih)
            THEN settle([phase |-> "removeOldDrives", i |-> 0, stage |-> "drives",
                         pending |-> oldDrives(driveList)], hl, ih, dh, num, driveList)
            ELSE c
        ELSE IF c.pending = {}
             THEN settle([phase |-> "removeInactive", i |-> c.i + 1, stage |-> "host",
                          pending |-> {}], hl, ih, dh, num, driveList)
             ELSE c
    ELSE IF c.phase = "removeOldDrives" THEN
        IF c.pending = {}
        THEN settle(enterDeactivate("selected", 1, hl, dh, num), hl, ih, dh, num, driveList)
        ELSE c
    ELSE IF c.phase \in {"selected", "down"} THEN
        LET list == deactivateList(c.phase, hl, dh, num)
        IN  IF c.i > Len(list) THEN
                IF c.phase = "selected"
                THEN settle(enterDeactivate("down", 1, hl, dh, num), hl, ih, dh, num, driveList)
                ELSE Done
            ELSE IF c.stage = "drives" /\ c.pending # {} THEN c
            ELSE IF c.stage = "drives" /\ allDrivesInactive(list[c.i])
                 THEN [c EXCEPT !.stage = "hostcall"]
            ELSE IF c.stage = "hostcall" /\ c.pending = {} THEN c
            ELSE settle(enterDeactivate(c.phase, c.i + 1, hl, dh, num),
                        hl, ih, dh, num, driveList)
    ELSE c

(***************************************************************************)
(* Handler: the tick                                                       *)
(***************************************************************************)
Init ==
    /\ info \in Infos
    /\ pc = "status"
    /\ err = ""
    /\ calls = <<>>
    /\ response = EmptyResponse
    /\ systemStatus = [IoStatus |-> "", Upgrade |-> ""]
    /\ hostsApiList = <<>>
    /\ driveApiList = <<>>
    /\ hostsMap = <<>>
    /\ hostsList = <<>>
    /\ inactiveHosts = <<>>
    /\ downHosts = <<>>
    /\ numToDeactivate = 0
    /\ cur = Idle
    /\ fnIn = <<>>
    /\ fnOut = NoState

\* return with an error before the snapshot is complete
returnError(e, newCalls) ==
    /\ err' = e
    /\ pc' = "done"
    /\ calls' = newCalls
    /\ UNCHANGED <<info, response, hostsApiList, driveApiList, hostsMap, hostsList,
                   inactiveHosts, downHosts, numToDeactivate, cur, fnIn, fnOut>>

\* lines 162-169
CallStatus ==
    /\ pc = "status"
    /\ \E ok \in BOOLEAN :
        LET newCalls == Append(calls, CallEntry("JrpcStatus", 0, FALSE, ok))
        IN  IF ~ok
            THEN returnError(RpcError, newCalls) /\ UNCHANGED systemStatus
            ELSE \E status \in StatusReplies :
                    /\ systemStatus' = status
                    /\ IF isAllowedToScale(status) # ""
                       THEN returnError(isAllowedToScale(status), newCalls)
                       ELSE /\ pc' = "hostList"
                            /\ calls' = newCalls
                            /\ UNCHANGED <<info, err, response, hostsApiList, driveApiList, hostsMap,
                                           hostsList, inactiveHosts, downHosts,
                                           numToDeactivate, cur, fnIn, fnOut>>

\* Faulty variant: the drive list is asked for whatever the role is.
CallHostList_alwaysDrives ==
    /\ pc = "hostList"
    /\ \E ok \in BOOLEAN :
        LET newCalls == Append(calls, CallEntry("JrpcHostList", 0, FALSE, ok))
        IN  IF ~ok
            THEN returnError(RpcError, newCalls) /\ UNCHANGED systemStatus
            ELSE \E reply \in HostListReplies :
                    /\ hostsApiList' = reply
                    /\ pc' = "drivesList"
                    /\ calls' = newCalls
                    /\ UNCHANGED <<info, err, response, systemStatus, driveApiList, hostsMap,
                                   hostsList, inactiveHosts, downHosts,
                                   numToDeactivate, cur, fnIn, fnOut>>

\* Faulty variant: the drive list is asked for when the role is not backend.
CallHostList_roleInverted ==
    /\ pc = "hostList"
    /\ \E ok \in BOOLEAN :
        LET newCalls == Append(calls, CallEntry("JrpcHostList", 0, FALSE, ok))
        IN  IF ~ok
            THEN returnError(RpcError, newCalls) /\ UNCHANGED systemStatus
            ELSE \E reply \in HostListReplies :
                    /\ hostsApiList' = reply
                    /\ pc' = IF info.Role # "backend" THEN "drivesList" ELSE "nodeList"
                    /\ calls' = newCalls
                    /\ UNCHANGED <<info, err, response, systemStatus, driveApiList, hostsMap,
                                   hostsList, inactiveHosts, downHosts,
                                   numToDeactivate, cur, fnIn, fnOut>>

\* lines 170-173
CallHostList ==
    /\ pc = "hostList"
    /\ \E ok \in BOOLEAN :
        LET newCalls == Append(calls, CallEntry("JrpcHostList", 0, FALSE, ok))
        IN  IF ~ok
            THEN returnError(RpcError, newCalls) /\ UNCHANGED systemStatus
            ELSE \E reply \in HostListReplies :
                    /\ hostsApiList' = reply
                    /\ pc' = IF info.Role = "backend" THEN "drivesList" ELSE "nodeList"
                    /\ calls' = newCalls
                    /\ UNCHANGED <<info, err, response, systemStatus, driveApiList, hostsMap,
                                   hostsList, inactiveHosts, downHosts,
                                   numToDeactivate, cur, fnIn, fnOut>>

\* Faulty variant: a failed drive list call is ignored.
CallDrivesList_ignoreError ==
    /\ pc = "drivesList"
    /\ \E ok \in BOOLEAN :
        LET newCalls == Append(calls, CallEntry("JrpcDrivesList", 0, FALSE, ok))
        IN  \E reply \in DriveListReplies(DOMAIN hostsApiList) :
                /\ driveApiList' = IF ok THEN reply ELSE <<>>
                /\ pc' = "nodeList"
                /\ calls' = newCalls
                /\ UNCHANGED <<info, err, response, systemStatus, hostsApiList, hostsMap,
                               hostsList, inactiveHosts, downHosts,
                               numToDeactivate, cur, fnIn, fnOut>>

\* lines 174-179
CallDrivesList ==
    /\ pc = "drivesList"
    /\ \E ok \in BOOLEAN :
        LET newCalls == Append(calls, CallEntry("JrpcDrivesList", 0, FALSE, ok))
        IN  IF ~ok
            THEN returnError(RpcError, newCalls) /\ UNCHANGED systemStatus
            ELSE \E reply \in DriveListReplies(DOMAIN hostsApiList) :
                    /\ driveApiList' = reply
                    /\ pc' = "nodeList"
                    /\ calls' = newCalls
                    /\ UNCHANGED <<info, err, response, systemStatus, hostsApiList, hostsMap,
                                   hostsList, inactiveHosts, downHosts,
                                   numToDeactivate, cur, fnIn, fnOut>>

\* what every step of the mutating phase ends with: the next position, and
\* the response host list (lines 310-318) once nothing is left to do
proceed(c, r, newCalls, hl, ih, dh, num) ==
    LET c2 == settle(c, hl, ih, dh, num, driveApiList)
    IN  /\ cur' = c2
        /\ calls' = newCalls
        /\ pc' = IF c2.phase = "done" THEN "done" ELSE "mutating"
        /\ response' = IF c2.phase = "done"
                       THEN [r EXCEPT !.Hosts = responseHosts(hl)]
                       ELSE r

sortSlice(l) == {s \in Orders({l[k] : k \in DOMAIN l}) : Sorted(s)}

\* lines 180-272: the node list call, then the host map, the three lists,
\* the scale states, the sort and the number to deactivate
CallNodeList ==
    /\ pc = "nodeList"
    /\ \E ok \in BOOLEAN :
        LET newCalls == Append(calls, CallEntry("JrpcNodeList", 0, FALSE, ok))
        IN  IF ~ok
            THEN returnError(RpcError, newCalls) /\ UNCHANGED systemStatus
            ELSE \E nodeApiList \in NodeListReplies(hostsApiList) :
                 LET built == hostInfoMap(hostsApiList, driveApiList, nodeApiList)
                     all == {built[h] : h \in DOMAIN built}
                     scope == {h \in all : inScope(h, info.Role, info.Instances)}
                     inactive == {h \in all : queuedForRemoval(h, info.Role, info.Instances)}
                     down == {h \in all : queuedAsDown(h, info.Role)}
                 IN  \E pre \in Orders(scope), ih \in Orders(inactive), dh \in Orders(down) :
                     \E hl \in sortSlice(calculateHostsState(pre)) :
                        LET num == getNumToDeactivate(hl, info.DesiredCapacity)
                        IN  /\ hostsMap' = built
                            /\ hostsList' = hl
                            /\ inactiveHosts' = ih
                            /\ downHosts' = dh
                            /\ numToDeactivate' = num
                            /\ proceed([phase |-> "removeInactive", i |-> 1,
                                        stage |-> "host", pending |-> {}],
                                       response, newCalls, hl, ih, dh, num)
                            /\ UNCHANGED <<info, err, systemStatus, hostsApiList,
                                           driveApiList, fnIn, fnOut>>

\* lines 442-450
removeDrive(s, drive, ok) ==
    [calls |-> Append(s.calls, CallEntry("JrpcRemoveDrive", drive.Uuid, FALSE, ok)),
     response |-> IF ok THEN s.response
                  ELSE AddTransientError(s.response, RpcError, "removeDrive")]

mutatingFrame ==
    UNCHANGED <<info, err, systemStatus, hostsApiList, driveApiList, hostsMap, hostsList,
                inactiveHosts, downHosts, numToDeactivate, fnIn, fnOut>>

\* Faulty variant: a failed remove-host call ends the loop over the hosts.
RemoveHostCall_abortLoop ==
    /\ pc = "mutating"
    /\ cur.phase = "removeInactive"
    /\ cur.stage = "host"
    /\ \E ok \in BOOLEAN :
        LET host == inactiveHosts[cur.i]
            newCalls == calls \o <<DropEntry(host.HostIp),
                                   CallEntry("JrpcRemoveHost", host.id, TRUE, ok)>>
        IN  IF ~ok
            THEN proceed([cur EXCEPT !.i = Len(inactiveHosts) + 1],
                         AddTransientError(response, RpcError, "removeInactive"),
                         newCalls, hostsList, inactiveHosts, downHosts, numToDeactivate)
            ELSE proceed([cur EXCEPT !.stage = "drives", !.pending = DOMAIN host.drives],
                         [response EXCEPT !.ToTerminate =
                             @ \o selectInstanceByIp(host.HostIp, info.Instances)],
                         newCalls, hostsList, inactiveHosts, downHosts, numToDeactivate)
    /\ mutatingFrame

\* Faulty variant: the endpoint is dropped after the remove-host call.
RemoveHostCall_dropAfter ==
    /\ pc = "mutating"
    /\ cur.phase = "removeInactive"
    /\ cur.stage = "host"
    /\ \E ok \in BOOLEAN :
        LET host == inactiveHosts[cur.i]
            newCalls == calls \o <<CallEntry("JrpcRemoveHost", host.id, TRUE, ok),
                                   DropEntry(host.HostIp)>>
        IN  IF ~ok
            THEN proceed([cur EXCEPT !.i = cur.i + 1],
                         AddTransientError(response, RpcError, "removeInactive"),
                         newCalls, hostsList, inactiveHosts, downHosts, numToDeactivate)
            ELSE proceed([cur EXCEPT !.stage = "drives", !.pending = DOMAIN host.drives],
                         [response EXCEPT !.ToTerminate =
                             @ \o selectInstanceByIp(host.HostIp, info.Instances)],
                         newCalls, hostsList, inactiveHosts, downHosts, numToDeactivate)
    /\ mutatingFrame

\* lines 411-425: drop, remove the host, note the instance to terminate
RemoveHostCall ==
    /\ pc = "mutating"
    /\ cur.phase = "removeInactive"
    /\ cur.stage = "host"
    /\ \E ok \in BOOLEAN :
        LET host == inactiveHosts[cur.i]
            newCalls == calls \o <<DropEntry(host.HostIp),
                                   CallEntry("JrpcRemoveHost", host.id, TRUE, ok)>>
        IN  IF ~ok
            THEN proceed([cur EXCEPT !.i = cur.i + 1],
                         AddTransientError(response, RpcError, "removeInactive"),
                         newCalls, hostsList, inactiveHosts, downHosts, numToDeactivate)
            ELSE proceed([cur EXCEPT !.stage = "drives", !.pending = DOMAIN host.drives],
                         [response EXCEPT !.ToTerminate =
                             @ \o selectInstanceByIp(host.HostIp, info.Instances)],
                         newCalls, hostsList, inactiveHosts, downHosts, numToDeactivate)
    /\ mutatingFrame

\* lines 427-429: one turn of the loop over the drives of a removed host
RemoveHostDriveCall ==
    /\ pc = "mutating"
    /\ cur.phase = "removeInactive"
    /\ cur.stage = "drives"
    /\ \E d \in cur.pending, ok \in BOOLEAN :
        LET s == removeDrive([calls |-> calls, response |-> response],
                             inactiveHosts[cur.i].drives[d], ok)
        IN  proceed([cur EXCEPT !.pending = @ \ {d}], s.response, s.calls,
                    hostsList, inactiveHosts, downHosts, numToDeactivate)
    /\ mutatingFrame

\* lines 434-440: one turn of the loop of removeOldDrives that finds a drive
RemoveOldDriveCall ==
    /\ pc = "mutating"
    /\ cur.phase = "removeOldDrives"
    /\ \E d \in cur.pending, ok \in BOOLEAN :
        LET s == removeDrive([calls |-> calls, response |-> response], driveApiList[d], ok)
        IN  proceed([cur EXCEPT !.pending = @ \ {d}], s.response, s.calls,
                    hostsList, inactiveHosts, downHosts, numToDeactivate)
    /\ mutatingFrame

\* lines 276-286: one turn of the drive loop of deactivateHost that calls
DeactivateDriveCall ==
    /\ pc = "mutating"
    /\ cur.phase \in {"selected", "down"}
    /\ cur.stage = "drives"
    /\ \E d \in cur.pending, ok \in BOOLEAN :
        LET host == deactivateList(cur.phase, hostsList, downHosts, numToDeactivate)[cur.i]
            newCalls == Append(calls, CallEntry("JrpcDeactivateDrives",
                                                host.drives[d].Uuid, FALSE, ok))
        IN  proceed([cur EXCEPT !.pending = @ \ {d}],
                    IF ok THEN response
                    ELSE AddTransientError(response, RpcError, "deactivateDrive"),
                    newCalls, hostsList, inactiveHosts, downHosts, numToDeactivate)
    /\ mutatingFrame

\* lines 288-298
DeactivateHostCall ==
    /\ pc = "mutating"
    /\ cur.phase \in {"selected", "down"}
    /\ cur.stage = "hostcall"
    /\ \E ok \in BOOLEAN :
        LET host == deactivateList(cur.phase, hostsList, downHosts, numToDeactivate)[cur.i]
            newCalls == calls \o <<DropEntry(host.HostIp),
                                   CallEntry("JrpcDeactivateHosts", host.id, FALSE, ok)>>
        IN  proceed(enterDeactivate(cur.phase, cur.i + 1, hostsList, downHosts,
                                    numToDeactivate),
                    IF ok THEN response
                    ELSE AddTransientError(response, RpcError, "deactivateHost"),
                    newCalls, hostsList, inactiveHosts, downHosts, numToDeactivate)
    /\ mutatingFrame

Next ==
    \/ CallStatus
    \/ CallHostList
    \/ CallDrivesList
    \/ CallNodeList
    \/ RemoveHostCall
    \/ RemoveHostDriveCall
    \/ RemoveOldDriveCall
    \/ DeactivateDriveCall
    \/ DeactivateHostCall

Spec == Init /\ [][Next]_vars

\* The ticks of Handler again, under the name the properties of the scope,
\* the healthy capacity and the frame of a tick are checked with.
SpecScope == Init /\ [][Next]_vars

\* The ticks of Handler once more, under the name the properties of the
\* mutating steps of a tick (endpoint drops, deactivation, removal, orphan
\* drives, reported hosts) are checked with.
SpecSteps == Init /\ [][Next]_vars

\* And under the name the properties of the order of the calls of a tick
\* are checked with.
SpecOrder == Init /\ [][Next]_vars

(***************************************************************************)
(* sort.Slice with the comparator of Handler, run on its own               *)
(***************************************************************************)
MaxSortLen == 3        \* longest host list sorted on its own
AddedTimes == {1, 2}
InactiveDriveCounts == {0, 1}

\* n inactive drives next to one active drive
SortDrives(h, n) ==
    [d \in 0..n |-> Drive(d, h, IF d = 0 THEN "ACTIVE" ELSE "INACTIVE", TRUE)]

\* the fields of a host the comparator reads
SortKeys ==
    [scaleState : ScaleStates, inactive : InactiveDriveCounts, AddedTime : AddedTimes]

SortHost(h, key) ==
    [id |-> h, scaleState |-> key.scaleState, drives |-> SortDrives(h, key.inactive),
     AddedTime |-> key.AddedTime]

InitSort ==
    /\ NoTick
    /\ pc = "in"
    /\ \E n \in 0..MaxSortLen :
          \E keys \in [1..n -> SortKeys] :
              fnIn = [h \in 1..n |-> SortHost(h, keys[h])]
    /\ fnOut = <<>>

RunSortSlice ==
    /\ pc = "in"
    /\ pc' = "out"
    /\ fnOut' \in sortSlice(fnIn)
    /\ UNCHANGED <<info, err, calls, response, systemStatus, hostsApiList,
                   driveApiList, hostsMap, hostsList, inactiveHosts, downHosts,
                   numToDeactivate, cur, fnIn>>

NextSort == RunSortSlice

SpecSort == InitSort /\ [][NextSort]_vars

(***************************************************************************)
(* Handler run a second time on the same input with the same replies.      *)
(* fnIn keeps what the first run returned and the reply of each of its     *)
(* mutating calls; the read calls of the second run return what they       *)
(* returned to the first, so the second run has the same host map.         *)
(***************************************************************************)
isReadCall(c) ==
    c.op = "Call"
    /\ c.method \in {"JrpcStatus", "JrpcHostList", "JrpcDrivesList", "JrpcNodeList"}

isMutatingCall(c) ==
    c.op = "Call"
    /\ c.method \in {"JrpcDeactivateDrives", "JrpcDeactivateHosts",
                     "JrpcRemoveHost", "JrpcRemoveDrive"}

firstRun ==
    [Hosts |-> response.Hosts,
     ToTerminate |-> response.ToTerminate,
     replies |-> {[method |-> calls[k].method, arg |-> calls[k].arg, ok |-> calls[k].ok] :
                    k \in {x \in DOMAIN calls : isMutatingCall(calls[x])}}]

\* lines 129-272 of the second run: the same replies, a new iteration order
\* of the host map and a new run of sort.Slice
SecondRun ==
    /\ pc = "done"
    /\ fnIn = <<>>
    /\ \E k \in DOMAIN calls : calls[k].method = "JrpcNodeList" /\ calls[k].ok
    /\ fnIn' = firstRun
    /\ LET all == {hostsMap[h] : h \in DOMAIN hostsMap}
           scope == {h \in all : inScope(h, info.Role, info.Instances)}
           inactive == {h \in all : queuedForRemoval(h, info.Role, info.Instances)}
           down == {h \in all : queuedAsDown(h, info.Role)}
       IN  \E pre \in Orders(scope), ih \in Orders(inactive), dh \in Orders(down) :
           \E hl \in sortSlice(calculateHostsState(pre)) :
              LET num == getNumToDeactivate(hl, info.DesiredCapacity)
              IN  /\ hostsList' = hl
                  /\ inactiveHosts' = ih
                  /\ downHosts' = dh
                  /\ numToDeactivate' = num
                  /\ proceed([phase |-> "removeInactive", i |-> 1,
                              stage |-> "host", pending |-> {}],
                             EmptyResponse, SelectSeq(calls, isReadCall),
                             hl, ih, dh, num)
    /\ UNCHANGED <<info, err, systemStatus, hostsApiList, driveApiList, hostsMap, fnOut>>

\* a call of the second run that the first run made too gets a reply the
\* first run got
sameReplies ==
    fnIn # <<>> =>
        \A k \in DOMAIN calls :
            (isMutatingCall(calls[k])
             /\ \E r \in fnIn.replies : r.method = calls[k].method /\ r.arg = calls[k].arg)
            => [method |-> calls[k].method, arg |-> calls[k].arg, ok |-> calls[k].ok]
                   \in fnIn.replies

NextTwice ==
    \/ Next /\ sameReplies'
    \/ SecondRun

SpecTwice == Init /\ [][NextTwice]_vars

(***************************************************************************)
(* The jrpc.Pool of a tick (scale.go:143-155 builds it), run on its own.   *)
(* fnOut is the pool: the endpoints it still has and the active one (0 for *)
(* none); fnIn is the call in progress, with the endpoints that would      *)
(* answer it; cur lists the endpoints the call has tried; calls records    *)
(* every attempt, every result and every drop.                             *)
(***************************************************************************)
MaxEndpoints == 3      \* candidate endpoints of the pool
MaxPoolOps == 4        \* calls and drops made on the pool in a tick

NoEndpoint == 0
Endpoints == 1..MaxEndpoints

AttemptEntry(ip, ok) == [op |-> "Attempt", ip |-> ip, ok |-> ok]
ReturnEntry(ok) == [op |-> "Return", ip |-> NoEndpoint, ok |-> ok]
PoolDropEntry(ip) == [op |-> "Drop", ip |-> ip, ok |-> TRUE]

poolOps == Cardinality({k \in DOMAIN calls : calls[k].op \in {"Return", "Drop"}})

RECURSIVE without(_, _)
without(ips, ip) ==
    IF ips = <<>> THEN <<>>
    ELSE IF Head(ips) = ip THEN without(Tail(ips), ip)
    ELSE <<Head(ips)>> \o without(Tail(ips), ip)

\* Faulty variant: the connection to a dropped endpoint stays the active one.
poolDrop_keepsActive(pool, ip) ==
    [pool EXCEPT !.Ips = without(@, ip)]

\* Pool.Drop: the endpoint is gone for the rest of the tick
poolDrop(pool, ip) ==
    [Ips |-> without(pool.Ips, ip),
     Active |-> IF pool.Active = ip THEN NoEndpoint ELSE pool.Active]

\* the first endpoint of the shuffled list that the call has not tried
nextInLine(pool, tried) ==
    LET left == {k \in DOMAIN pool.Ips : pool.Ips[k] \notin {tried[x] : x \in DOMAIN tried}}
    IN  IF left = {} THEN {}
        ELSE {pool.Ips[CHOOSE k \in left : \A x \in left : k <= x]}

\* Faulty variant: no failover, only the first endpoint tried is a candidate.
poolCandidates_noFailover(pool, tried) ==
    IF tried # <<>> THEN {}
    ELSE IF pool.Active # NoEndpoint THEN {pool.Active}
    ELSE nextInLine(pool, tried)

\* the endpoint the call tries next: the active one, or without an active
\* one the next endpoint of the pool that the call has not tried
poolCandidates(pool, tried) ==
    IF pool.Active # NoEndpoint THEN {pool.Active}
    ELSE nextInLine(pool, tried)

\* The order of the shuffled list is the order of the endpoint numbers: the
\* endpoints differ only in which calls they answer, and a call draws the
\* endpoints that answer it from all subsets.
InitPool ==
    /\ info = [Role |-> "", DesiredCapacity |-> 0, Instances |-> <<>>]
    /\ err = ""
    /\ response = EmptyResponse
    /\ systemStatus = [IoStatus |-> "", Upgrade |-> ""]
    /\ hostsApiList = <<>>
    /\ driveApiList = <<>>
    /\ hostsMap = <<>>
    /\ hostsList = <<>>
    /\ inactiveHosts = <<>>
    /\ downHosts = <<>>
    /\ numToDeactivate = 0
    /\ pc = "idle"
    /\ calls = <<>>
    /\ cur = <<>>
    /\ fnIn = <<>>
    /\ fnOut = [Ips |-> [k \in Endpoints |-> k], Active |-> NoEndpoint]

poolFrame ==
    UNCHANGED <<info, err, response, systemStatus, hostsApiList, driveApiList,
                hostsMap, hostsList, inactiveHosts, downHosts, numToDeactivate>>

\* Pool.Call is entered
PoolCall ==
    /\ pc = "idle"
    /\ poolOps < MaxPoolOps
    /\ \E answering \in SUBSET Endpoints : fnIn' = [answering |-> answering]
    /\ pc' = "calling"
    /\ cur' = <<>>
    /\ UNCHANGED <<calls, fnOut>>
    /\ poolFrame

\* one attempt of the call, or its return with an error when no candidate
\* is left
PoolAttempt ==
    /\ pc = "calling"
    /\ IF poolCandidates(fnOut, cur) = {}
       THEN /\ calls' = Append(calls, ReturnEntry(FALSE))
            /\ pc' = "idle"
            /\ UNCHANGED <<cur, fnOut>>
       ELSE \E ip \in poolCandidates(fnOut, cur) :
                IF ip \in fnIn.answering
                THEN /\ calls' = calls \o <<AttemptEntry(ip, TRUE), ReturnEntry(TRUE)>>
                     /\ fnOut' = [fnOut EXCEPT !.Active = ip]
                     /\ pc' = "idle"
                     /\ cur' = Append(cur, ip)
                ELSE /\ calls' = Append(calls, AttemptEntry(ip, FALSE))
                     /\ fnOut' = [fnOut EXCEPT !.Active = NoEndpoint]
                     /\ pc' = "calling"
                     /\ cur' = Append(cur, ip)
    /\ UNCHANGED fnIn
    /\ poolFrame

\* Pool.Drop between two calls
PoolDrop ==
    /\ pc = "idle"
    /\ poolOps < MaxPoolOps
    /\ \E ip \in Endpoints :
          /\ fnOut' = poolDrop(fnOut, ip)
          /\ calls' = Append(calls, PoolDropEntry(ip))
    /\ UNCHANGED <<pc, cur, fnIn>>
    /\ poolFrame

NextPool ==
    \/ PoolCall
    \/ PoolAttempt
    \/ PoolDrop

SpecPool == InitPool /\ [][NextPool]_vars

(***************************************************************************)
(* Ticks run one after the other against a management plane that applies   *)
(* the calls it got, each at some later time.  hostsApiList and            *)
(* driveApiList are the hosts and drives the plane has (a removed one is   *)
(* no longer in the domain), fnOut is its node list, cur the calls it got  *)
(* and has not applied yet.  A tick is Handler with every RPC succeeding;  *)
(* calls is the record of the last tick.  fnIn remembers the hosts ticks   *)
(* selected and the instances ticks listed for termination.                *)
(***************************************************************************)
RECURSIVE SeqOfSet(_)
SeqOfSet(S) ==
    IF S = {} THEN <<>>
    ELSE LET x == CHOOSE y \in S : TRUE IN <<x>> \o SeqOfSet(S \ {x})

Request(method, arg) == [method |-> method, arg |-> arg]

\* lines 274-300 with every call succeeding
deactivateHostCalls(host) ==
    LET uuids == {host.drives[d].Uuid : d \in drivesToDeactivate(host)}
        driveCalls == [k \in 1..Cardinality(uuids) |->
                          CallEntry("JrpcDeactivateDrives", SeqOfSet(uuids)[k], FALSE, TRUE)]
    IN  IF allDrivesInactive(host)
        THEN driveCalls \o <<DropEntry(host.HostIp),
                             CallEntry("JrpcDeactivateHosts", host.id, FALSE, TRUE)>>
        ELSE driveCalls

\* lines 427-429, 434-440 with every call succeeding
removeDriveCalls(uuids) ==
    [k \in 1..Cardinality(uuids) |->
        CallEntry("JrpcRemoveDrive", SeqOfSet(uuids)[k], FALSE, TRUE)]

\* lines 410-432 with every call succeeding, for one host
removeInactiveCalls(host) ==
    <<DropEntry(host.HostIp), CallEntry("JrpcRemoveHost", host.id, TRUE, TRUE)>>
    \o removeDriveCalls({host.drives[d].Uuid : d \in DOMAIN host.drives})

RECURSIVE removeInactiveOver(_, _)
removeInactiveOver(list, k) ==
    IF k > Len(list) THEN <<>>
    ELSE removeInactiveCalls(list[k]) \o removeInactiveOver(list, k + 1)

RECURSIVE deactivateOver(_, _)
deactivateOver(list, k) ==
    IF k > Len(list) THEN <<>>
    ELSE deactivateHostCalls(list[k]) \o deactivateOver(list, k + 1)

RECURSIVE terminateOver(_, _, _)
terminateOver(list, k, instances) ==
    IF k > Len(list) THEN <<>>
    ELSE selectInstanceByIp(list[k].HostIp, instances) \o terminateOver(list, k + 1, instances)

\* lines 270-308
mutatingCalls(hl, ih, dh, num, driveList) ==
    removeInactiveOver(ih, 1)
    \o removeDriveCalls({driveList[d].Uuid : d \in oldDrives(driveList)})
    \o deactivateOver(deactivateList("selected", hl, dh, num), 1)
    \o deactivateOver(deactivateList("down", hl, dh, num), 1)

requestsOf(record) ==
    {Request(record[k].method, record[k].arg) :
        k \in {x \in DOMAIN record : isMutatingCall(record[x])}}

InitProgress ==
    /\ info \in Infos
    /\ pc = "idle"
    /\ err = ""
    /\ calls = <<>>
    /\ response = EmptyResponse
    /\ systemStatus = [IoStatus |-> "STARTED", Upgrade |-> ""]
    /\ hostsApiList \in HostListReplies
    /\ driveApiList \in IF info.Role = "backend"
                        THEN DriveListReplies(DOMAIN hostsApiList) ELSE {<<>>}
    /\ fnOut \in NodeListReplies(hostsApiList)
    /\ hostsMap = <<>>
    /\ hostsList = <<>>
    /\ inactiveHosts = <<>>
    /\ downHosts = <<>>
    /\ numToDeactivate = 0
    /\ cur = {}
    /\ fnIn = [selected |-> {}, terminated |-> {}]

\* lines 129-319: one tick, every RPC succeeding
Tick ==
    /\ isAllowedToScale(systemStatus) = ""
    /\ LET built == hostInfoMap(hostsApiList, driveApiList, fnOut)
           all == {built[h] : h \in DOMAIN built}
           scope == {h \in all : inScope(h, info.Role, info.Instances)}
           inactive == {h \in all : queuedForRemoval(h, info.Role, info.Instances)}
           down == {h \in all : queuedAsDown(h, info.Role)}
       IN  \E pre \in Orders(scope), ih \in Orders(inactive), dh \in Orders(down) :
           \E hl \in sortSlice(calculateHostsState(pre)) :
              LET num == getNumToDeactivate(hl, info.DesiredCapacity)
                  record == mutatingCalls(hl, ih, dh, num, driveApiList)
                  toTerminate == terminateOver(ih, 1, info.Instances)
              IN  /\ hostsMap' = built
                  /\ hostsList' = hl
                  /\ inactiveHosts' = ih
                  /\ downHosts' = dh
                  /\ numToDeactivate' = num
                  /\ calls' = record
                  /\ response' = [Hosts |-> responseHosts(hl), ToTerminate |-> toTerminate,
                                  TransientErrors |-> <<>>]
                  /\ cur' = cur \cup requestsOf(record)
                  /\ fnIn' = [selected |-> fnIn.selected \cup
                                              {[id |-> hl[k].id, ip |-> hl[k].HostIp] :
                                                  k \in 1..num},
                              terminated |-> fnIn.terminated \cup
                                              {toTerminate[k].PrivateIp :
                                                  k \in DOMAIN toTerminate}]
    /\ pc' = "ticked"
    /\ UNCHANGED <<info, err, systemStatus, hostsApiList, driveApiList, fnOut>>

Restrict(f, S) == [x \in S |-> f[x]]

planeFrame ==
    UNCHANGED <<info, pc, err, calls, response, systemStatus, hostsMap, hostsList,
                inactiveHosts, downHosts, numToDeactivate, fnIn, fnOut>>

\* deactivate-drive applied: the drive is INACTIVE and no longer should be active
PlaneDeactivateDrive ==
    /\ \E c \in cur :
        /\ c.method = "JrpcDeactivateDrives"
        /\ cur' = cur \ {c}
        /\ driveApiList' =
              [d \in DOMAIN driveApiList |->
                  IF driveApiList[d].Uuid = c.arg
                  THEN [driveApiList[d] EXCEPT !.Status = "INACTIVE", !.ShouldBeActive = FALSE]
                  ELSE driveApiList[d]]
    /\ UNCHANGED hostsApiList
    /\ planeFrame

\* a deactivation begun before the first tick is completed: a drive that no
\* longer should be active is INACTIVE
PlaneFinishDrive ==
    /\ \E d \in DOMAIN driveApiList :
        /\ ~driveApiList[d].ShouldBeActive
        /\ driveApiList[d].Status # "INACTIVE"
        /\ driveApiList' = [driveApiList EXCEPT ![d].Status = "INACTIVE"]
    /\ UNCHANGED <<cur, hostsApiList>>
    /\ planeFrame

\* deactivate-host applied: the host is INACTIVE
PlaneDeactivateHost ==
    /\ \E c \in cur :
        /\ c.method = "JrpcDeactivateHosts"
        /\ cur' = cur \ {c}
        /\ hostsApiList' =
              [h \in DOMAIN hostsApiList |->
                  IF h = c.arg THEN [hostsApiList[h] EXCEPT !.State = "INACTIVE"]
                  ELSE hostsApiList[h]]
    /\ UNCHANGED driveApiList
    /\ planeFrame

\* remove-host applied: the host is deleted
PlaneRemoveHost ==
    /\ \E c \in cur :
        /\ c.method = "JrpcRemoveHost"
        /\ cur' = cur \ {c}
        /\ hostsApiList' = Restrict(hostsApiList, DOMAIN hostsApiList \ {c.arg})
    /\ UNCHANGED driveApiList
    /\ planeFrame

\* remove-drive applied: the drive is deleted
PlaneRemoveDrive ==
    /\ \E c \in cur :
        /\ c.method = "JrpcRemoveDrive"
        /\ cur' = cur \ {c}
        /\ driveApiList' =
              Restrict(driveApiList,
                       {d \in DOMAIN driveApiList : driveApiList[d].Uuid # c.arg})
    /\ UNCHANGED hostsApiList
    /\ planeFrame

NextProgress ==
    \/ Tick
    \/ PlaneDeactivateDrive
    \/ PlaneFinishDrive
    \/ PlaneDeactivateHost
    \/ PlaneRemoveHost
    \/ PlaneRemoveDrive

\* ticks are scheduled again and again and the plane applies every call
SpecProgress ==
    /\ InitProgress
    /\ [][NextProgress]_vars
    /\ WF_vars(Tick)
    /\ WF_vars(PlaneDeactivateDrive)
    /\ WF_vars(PlaneFinishDrive)
    /\ WF_vars(PlaneDeactivateHost)
    /\ WF_vars(PlaneRemoveHost)
    /\ WF_vars(PlaneRemoveDrive)

(***************************************************************************)
(* The state machine CreateStateMachine (internal/aws/cluster/import.go)   *)
(* provisions, executed with every task completing.  pc is the state the   *)
(* execution is in, fnIn the data a state passes on ($), calls the states  *)
(* entered so far, each with the data it was entered with.                 *)
(***************************************************************************)
NullValue == "null"
\* TransientErrors of a task's output: a nil slice is null in JSON
TransientErrorValues == {NullValue, <<>>, <<"e1">>, <<"e1", "e2">>}

StartAt == "HostGroupInfo"
States ==
    [HostGroupInfo |-> [Type |-> "Task", Next |-> "Scale", End |-> FALSE],
     Scale |-> [Type |-> "Task", Next |-> "Terminate", End |-> FALSE],
     Terminate |-> [Type |-> "Task", Next |-> "ErrorCheck", End |-> FALSE],
     ErrorCheck |-> [Type |-> "Choice",
                     Choices |-> <<[Variable |-> "TransientErrors", IsNull |-> FALSE,
                                    Next |-> "Transient"]>>,
                     Default |-> "Success"],
     Success |-> [Type |-> "Succeed"],
     Transient |-> [Type |-> "Task", Next |-> "", End |-> TRUE]]

\* Faulty variant: the choice is taken when the variable is null.
choiceHolds_inverted(choice, data) ==
    (data[choice.Variable] = NullValue) # choice.IsNull

\* the IsNull comparison of a choice rule
choiceHolds(choice, data) ==
    (data[choice.Variable] = NullValue) = choice.IsNull

RECURSIVE firstChoice(_, _, _)
firstChoice(state, data, k) ==
    IF k > Len(state.Choices) THEN state.Default
    ELSE IF choiceHolds(state.Choices[k], data) THEN state.Choices[k].Next
    ELSE firstChoice(state, data, k + 1)

Entered(name, data) == [state |-> name, data |-> data]

InitStateMachine ==
    /\ NoTick
    /\ pc = StartAt
    /\ fnIn \in [TransientErrors : TransientErrorValues]
    /\ fnOut = NoState

machineFrame ==
    UNCHANGED <<info, err, response, systemStatus, hostsApiList, driveApiList, hostsMap,
                hostsList, inactiveHosts, downHosts, numToDeactivate, cur, fnOut>>

\* a Task state: its lambda returns the data passed on
RunTask ==
    /\ pc \in DOMAIN States
    /\ States[pc].Type = "Task"
    /\ calls' = Append(calls, Entered(pc, fnIn))
    /\ fnIn' \in [TransientErrors : TransientErrorValues]
    /\ pc' = IF States[pc].End THEN "ended" ELSE States[pc].Next
    /\ machineFrame

RunChoice ==
    /\ pc \in DOMAIN States
    /\ States[pc].Type = "Choice"
    /\ calls' = Append(calls, Entered(pc, fnIn))
    /\ pc' = firstChoice(States[pc], fnIn, 1)
    /\ UNCHANGED fnIn
    /\ machineFrame

RunSucceed ==
    /\ pc \in DOMAIN States
    /\ States[pc].Type = "Succeed"
    /\ calls' = Append(calls, Entered(pc, fnIn))
    /\ pc' = "ended"
    /\ UNCHANGED fnIn
    /\ machineFrame

NextStateMachine ==
    \/ RunTask
    \/ RunChoice
    \/ RunSucceed

SpecStateMachine == InitStateMachine /\ [][NextStateMachine]_vars

(***************************************************************************)
(* SetDisableInstancesApiTermination (internal/aws/common/aws.go): one     *)
(* goroutine per instance id.  pc is the position of the caller, cur the   *)
(* position of each goroutine, fnOut the semaphore (permits taken), the    *)
(* response lock (its holder, 0 for none) and the wait group counter,      *)
(* calls the ModifyInstanceAttribute calls made, response the two results, *)
(* fnIn the instance ids given.                                            *)
(***************************************************************************)
MaxInstances == 3   \* most instance ids given in one call
MaxPermits == 2     \* weight of terminationSemaphore (20 in the code), scaled
                    \* down so that the goroutines contend for it

\* Faulty variant: a permit is handed out whatever the number taken.
semaphoreFree_unlimited(taken) == TRUE

\* semaphore.Weighted.Acquire(ctx, 1) returns once a permit is free
semaphoreFree(taken) == taken < MaxPermits

InitTermination ==
    /\ info = [Role |-> "", DesiredCapacity |-> 0, Instances |-> <<>>]
    /\ err = ""
    /\ systemStatus = [IoStatus |-> "", Upgrade |-> ""]
    /\ hostsApiList = <<>>
    /\ driveApiList = <<>>
    /\ hostsMap = <<>>
    /\ hostsList = <<>>
    /\ inactiveHosts = <<>>
    /\ downHosts = <<>>
    /\ numToDeactivate = 0
    /\ \E n \in 0..MaxInstances :
        /\ fnIn = [i \in 1..n |-> i]
        /\ cur = [i \in 1..n |-> "unborn"]
        \* wg.Add(len(instanceIds))
        /\ fnOut = [taken |-> 0, responseLock |-> 0, wg |-> n]
    /\ pc = "spawning"
    /\ calls = <<>>
    /\ response = [updated |-> <<>>, errs |-> <<>>]

terminationFrame ==
    UNCHANGED <<info, err, systemStatus, hostsApiList, driveApiList, hostsMap, hostsList,
                inactiveHosts, downHosts, numToDeactivate, fnIn>>

\* go func(i int) {...}(i): the loop starts the goroutines in order
Spawn ==
    /\ pc = "spawning"
    /\ \E i \in DOMAIN cur :
        /\ cur[i] = "unborn"
        /\ \A j \in 1..(i - 1) : cur[j] # "unborn"
        /\ cur' = [cur EXCEPT ![i] = "acquire"]
    /\ UNCHANGED <<pc, calls, response, fnOut>>
    /\ terminationFrame

\* the loop is over
SpawnDone ==
    /\ pc = "spawning"
    /\ \A i \in DOMAIN cur : cur[i] # "unborn"
    /\ pc' = "waiting"
    /\ UNCHANGED <<cur, calls, response, fnOut>>
    /\ terminationFrame

\* terminationSemaphore.Acquire(context.Background(), 1)
AcquirePermit ==
    /\ \E i \in DOMAIN cur :
        /\ cur[i] = "acquire"
        /\ semaphoreFree(fnOut.taken)
        /\ fnOut' = [fnOut EXCEPT !.taken = @ + 1]
        /\ cur' = [cur EXCEPT ![i] = "lock"]
    /\ UNCHANGED <<pc, calls, response>>
    /\ terminationFrame

\* responseLock.Lock()
LockResponse ==
    /\ \E i \in DOMAIN cur :
        /\ cur[i] = "lock"
        /\ fnOut.responseLock = 0
        /\ fnOut' = [fnOut EXCEPT !.responseLock = i]
        /\ cur' = [cur EXCEPT ![i] = "call"]
    /\ UNCHANGED <<pc, calls, response>>
    /\ terminationFrame

\* Faulty variant: the two appends are made without the lock being held, as
\* a read and a later write of each slice.
ModifyInstance_appendOutsideLock ==
    /\ \E i \in DOMAIN cur, ok \in BOOLEAN, stale \in DOMAIN response.errs \cup {0} :
        /\ cur[i] = "call"
        /\ calls' = Append(calls, CallEntry("ModifyInstanceAttribute", fnIn[i], FALSE, ok))
        /\ response' =
              [updated |-> Append(response.updated, fnIn[i]),
               errs |-> IF ok THEN response.errs
                        ELSE Append(SubSeq(response.errs, 1, stale), RpcError)]
        /\ cur' = [cur EXCEPT ![i] = "unlock"]
    /\ UNCHANGED <<pc, fnOut>>
    /\ terminationFrame

\* setDisableInstanceApiTermination and the appends to errs and updated
ModifyInstance ==
    /\ \E i \in DOMAIN cur, ok \in BOOLEAN :
        /\ cur[i] = "call"
        /\ calls' = Append(calls, CallEntry("ModifyInstanceAttribute", fnIn[i], FALSE, ok))
        /\ response' =
              [updated |-> Append(response.updated, fnIn[i]),
               errs |-> IF ok THEN response.errs ELSE Append(response.errs, RpcError)]
        /\ cur' = [cur EXCEPT ![i] = "unlock"]
    /\ UNCHANGED <<pc, fnOut>>
    /\ terminationFrame

\* deferred responseLock.Unlock()
UnlockResponse ==
    /\ \E i \in DOMAIN cur :
        /\ cur[i] = "unlock"
        /\ fnOut' = [fnOut EXCEPT !.responseLock = 0]
        /\ cur' = [cur EXCEPT ![i] = "wgDone"]
    /\ UNCHANGED <<pc, calls, response>>
    /\ terminationFrame

\* deferred wg.Done()
WgDone ==
    /\ \E i \in DOMAIN cur :
        /\ cur[i] = "wgDone"
        /\ fnOut' = [fnOut EXCEPT !.wg = @ - 1]
        /\ cur' = [cur EXCEPT ![i] = "release"]
    /\ UNCHANGED <<pc, calls, response>>
    /\ terminationFrame

\* deferred terminationSemaphore.Release(1)
ReleasePermit ==
    /\ \E i \in DOMAIN cur :
        /\ cur[i] = "release"
        /\ fnOut' = [fnOut EXCEPT !.taken = @ - 1]
        /\ cur' = [cur EXCEPT ![i] = "exited"]
    /\ UNCHANGED <<pc, calls, response>>
    /\ terminationFrame

\* wg.Wait() and return
WaitReturn ==
    /\ pc = "waiting"
    /\ fnOut.wg = 0
    /\ pc' = "returned"
    /\ UNCHANGED <<cur, calls, response, fnOut>>
    /\ terminationFrame

NextTermination ==
    \/ Spawn
    \/ SpawnDone
    \/ AcquirePermit
    \/ LockResponse
    \/ ModifyInstance
    \/ UnlockResponse
    \/ WgDone
    \/ ReleasePermit
    \/ WaitReturn

SpecTermination == InitTermination /\ [][NextTermination]_vars

\* the scheduler runs every goroutine that can take a step
FairTermination == SpecTermination /\ WF_vars(NextTermination)

(***************************************************************************)
(* EnsureResource (internal/cluster/resource.go), run on its own.          *)
(* fnIn is the resource: whether its Fetch, Create and Update succeed and  *)
(* the versions it reports once fetched; calls records the methods called; *)
(* err is the error returned.                                              *)
(***************************************************************************)
Versions == {"v1", "v2", "v3"}

Resources ==
    [fetchOk : BOOLEAN, createOk : BOOLEAN, updateOk : BOOLEAN,
     DeployedVersion : Versions \cup {""}, TargetVersion : Versions]

InitEnsure ==
    /\ NoTick
    /\ pc = "fetch"
    /\ fnIn \in Resources
    /\ fnOut = NoState

ensureFrame ==
    UNCHANGED <<info, response, systemStatus, hostsApiList, driveApiList, hostsMap,
                hostsList, inactiveHosts, downHosts, numToDeactivate, cur, fnIn, fnOut>>

\* lines 23-26
EnsureFetch ==
    /\ pc = "fetch"
    /\ calls' = Append(calls, "Fetch")
    /\ IF fnIn.fetchOk
       THEN pc' = "fetched" /\ UNCHANGED err
       ELSE pc' = "done" /\ err' = "Fetch failed"
    /\ ensureFrame

\* Faulty variant: a resource that is not deployed is updated as well.
ensureMethod_updateAbsent(r) ==
    IF r.DeployedVersion = "" THEN "Update"
    ELSE IF r.DeployedVersion # r.TargetVersion THEN "Update"
    ELSE ""

\* lines 27-34: the method EnsureResource calls after Fetch ("" for none)
ensureMethod(r) ==
    IF r.DeployedVersion = "" THEN "Create"
    ELSE IF r.DeployedVersion # r.TargetVersion THEN "Update"
    ELSE ""

\* lines 27-34
EnsureApply ==
    /\ pc = "fetched"
    /\ pc' = "done"
    /\ LET method == ensureMethod(fnIn)
       IN  IF method = "Create"
           THEN /\ calls' = Append(calls, "Create")
                /\ err' = IF fnIn.createOk THEN "" ELSE "Create failed"
           ELSE IF method = "Update"
           THEN /\ calls' = Append(calls, "Update")
                /\ err' = IF fnIn.updateOk THEN "" ELSE "Update failed"
           ELSE UNCHANGED <<calls, err>>
    /\ ensureFrame

NextEnsure ==
    \/ EnsureFetch
    \/ EnsureApply

SpecEnsure == InitEnsure /\ [][NextEnsure]_vars

(***************************************************************************)
(* EnsureResource run again and again on one ApiGateway                     *)
(* (internal/aws/cluster/apigateway.go) or ApplicationLoadBalancer          *)
(* (internal/aws/cluster/alb.go), the cloud changed by nothing else.        *)
(* fnOut is the cloud (the version tag of the load balancer, of the target  *)
(* group and of the listener, "" for an absent one, and the number of REST  *)
(* APIs), cur the fields of the resource struct, fnIn the resource kind and *)
(* the outcome of each finished run, calls the cloud calls made, pc the     *)
(* position inside the current run.                                         *)
(***************************************************************************)
MaxRuns == 2        \* EnsureResource runs on the same resource

joinApiVersion == "v1"
albVersion == "v1"
LambdaVersion == "v2"   \* a.Backend.TargetVersion()
VersionTags == {"", "v0", albVersion}
ResourceKinds == {"ApiGateway", "ApplicationLoadBalancer"}

\* ApiGateway.DeployedVersion
apiGatewayDeployedVersion == ""

\* ApiGateway.TargetVersion
apiGatewayTargetVersion == joinApiVersion \o LambdaVersion

\* ApplicationLoadBalancer.DeployedVersion
albDeployedVersion(a) ==
    IF a.Version = a.TargetGroupVersion /\ a.Version = a.ListenerVersion
    THEN a.Version
    ELSE albVersion \o "#"

\* the resource as EnsureResource sees it
resourceOf(kind, a) ==
    IF kind = "ApiGateway"
    THEN [DeployedVersion |-> apiGatewayDeployedVersion, TargetVersion |-> apiGatewayTargetVersion]
    ELSE [DeployedVersion |-> albDeployedVersion(a), TargetVersion |-> albVersion]

CloudCall(name, field, value) == [name |-> name, field |-> field, value |-> value]

\* ApplicationLoadBalancer.Fetch: the three reads, in order
albFetchCalls(cloud) ==
    <<CloudCall("GetApplicationLoadBalancerVersion", "Version", cloud.Version),
      CloudCall("GetTargetGroupVersion", "TargetGroupVersion", cloud.TargetGroupVersion),
      CloudCall("GetListenerVersion", "ListenerVersion", cloud.ListenerVersion)>>

\* ApplicationLoadBalancer.Create with the tags of a.Tags()
albCreateCalls ==
    <<CloudCall("CreateApplicationLoadBalancer", "Version", albVersion),
      CloudCall("CreateTargetGroup", "TargetGroupVersion", albVersion),
      CloudCall("CreateListener", "ListenerVersion", albVersion)>>

\* ApplicationLoadBalancer.Update
albUpdateCalls(a) ==
    <<CloudCall("DeleteListener", "ListenerVersion", "")>>
    \o (IF albVersion # a.TargetGroupVersion
        THEN <<CloudCall("DeleteTargetGroup", "TargetGroupVersion", ""),
               CloudCall("CreateTargetGroup", "TargetGroupVersion", albVersion)>>
        ELSE <<CloudCall("GetTargetGroupArn", "", "")>>)
    \o (IF albVersion # a.Version
        THEN <<CloudCall("DeleteApplicationLoadBalancer", "Version", ""),
               CloudCall("CreateApplicationLoadBalancer", "Version", albVersion)>>
        ELSE <<CloudCall("GetApplicationLoadBalancerArn", "", "")>>)
    \o <<CloudCall("CreateListener", "ListenerVersion", albVersion)>>

\* ApiGateway.Create: the backend lambda is ensured, then the REST API made
apiGatewayCreateCalls(cloud) ==
    <<CloudCall("EnsureResource(Backend)", "", ""),
      CloudCall("CreateJoinApi", "RestApis", cloud.RestApis + 1)>>

\* ApiGateway.Update
apiGatewayUpdateCalls ==
    IF apiGatewayDeployedVersion = apiGatewayTargetVersion
    THEN <<>>
    ELSE <<CloudCall("Backend.Update", "", "")>>

methodCalls(kind, method, a, cloud) ==
    IF method = "" THEN <<>>
    ELSE IF kind = "ApiGateway"
    THEN (IF method = "Create" THEN apiGatewayCreateCalls(cloud) ELSE apiGatewayUpdateCalls)
    ELSE (IF method = "Create" THEN albCreateCalls ELSE albUpdateCalls(a))

\* the record after the first k calls of the list have written their field
RECURSIVE written(_, _, _)
written(rec, list, k) ==
    IF k = 0 THEN rec
    ELSE LET before == written(rec, list, k - 1)
             c == list[k]
         IN  IF c.field = "" THEN before ELSE [before EXCEPT ![c.field] = c.value]

\* the calls of the list that were made when call number failAt failed
\* (0: none failed)
madeCalls(list, failAt) ==
    IF failAt = 0 THEN list ELSE SubSeq(list, 1, failAt)

RunOutcome(method, error) == [method |-> method, err |-> error]

InitConverge ==
    /\ info = [Role |-> "", DesiredCapacity |-> 0, Instances |-> <<>>]
    /\ err = ""
    /\ calls = <<>>
    /\ response = [Hosts |-> <<>>, ToTerminate |-> <<>>, TransientErrors |-> <<>>]
    /\ systemStatus = [IoStatus |-> "", Upgrade |-> ""]
    /\ hostsApiList = <<>>
    /\ driveApiList = <<>>
    /\ hostsMap = <<>>
    /\ hostsList = <<>>
    /\ inactiveHosts = <<>>
    /\ downHosts = <<>>
    /\ numToDeactivate = 0
    /\ pc = "fetch"
    /\ \E kind \in ResourceKinds : fnIn = [kind |-> kind, runs |-> <<>>]
    /\ cur = [Version |-> "", TargetGroupVersion |-> "", ListenerVersion |-> ""]
    /\ \E v, t, l \in VersionTags :
        fnOut = [Version |-> v, TargetGroupVersion |-> t, ListenerVersion |-> l, RestApis |-> 0]
    /\ fnIn.kind = "ApiGateway" =>
        fnOut.Version = "" /\ fnOut.TargetGroupVersion = "" /\ fnOut.ListenerVersion = ""

convergeFrame ==
    UNCHANGED <<info, response, systemStatus, hostsApiList, driveApiList, hostsMap,
                hostsList, inactiveHosts, downHosts, numToDeactivate>>

\* r.Fetch() and the return on its error
ConvergeFetch ==
    /\ pc = "fetch"
    /\ LET list == IF fnIn.kind = "ApiGateway" THEN <<>> ELSE albFetchCalls(fnOut)
       IN  \E failAt \in 0..Len(list) :
               /\ calls' = calls \o madeCalls(list, failAt)
               /\ cur' = written(cur, list, IF failAt = 0 THEN Len(list) ELSE failAt - 1)
               /\ IF failAt = 0
                  THEN pc' = "fetched" /\ UNCHANGED <<err, fnIn>>
                  ELSE /\ pc' = "done"
                       /\ err' = RpcError
                       /\ fnIn' = [fnIn EXCEPT !.runs = Append(@, RunOutcome("Fetch", RpcError))]
    /\ UNCHANGED fnOut
    /\ convergeFrame

\* the Create or Update EnsureResource calls, or its return of nil
ConvergeApply ==
    /\ pc = "fetched"
    /\ LET method == ensureMethod(resourceOf(fnIn.kind, cur))
           list == methodCalls(fnIn.kind, method, cur, fnOut)
       IN  \E failAt \in 0..Len(list) :
               /\ calls' = calls \o madeCalls(list, failAt)
               /\ fnOut' = written(fnOut, list, IF failAt = 0 THEN Len(list) ELSE failAt - 1)
               /\ err' = IF failAt = 0 THEN "" ELSE RpcError
               /\ fnIn' = [fnIn EXCEPT !.runs =
                              Append(@, RunOutcome(method, IF failAt = 0 THEN "" ELSE RpcError))]
    /\ pc' = "done"
    /\ UNCHANGED cur
    /\ convergeFrame

\* EnsureResource is called again on the same resource
ConvergeAgain ==
    /\ pc = "done"
    /\ Len(fnIn.runs) < MaxRuns
    /\ pc' = "fetch"
    /\ err' = ""
    /\ UNCHANGED <<calls, cur, fnIn, fnOut>>
    /\ convergeFrame

NextConverge ==
    \/ ConvergeFetch
    \/ ConvergeApply
    \/ ConvergeAgain

SpecConverge == InitConverge /\ [][NextConverge]_vars

(***************************************************************************)
(* Properties of the planner (checked under SpecTarget)                    *)
(***************************************************************************)
GreaterOf(a, b) == CHOOSE m \in {a, b} : m >= a /\ m >= b
LesserOf(a, b) == CHOOSE m \in {a, b} : m <= a /\ m <= b
NumIn(l, state) == Cardinality({k \in 1..Len(l) : l[k].scaleState = state})
InH == NumIn(fnIn.hostInfo, HEALTHY)
InU == NumIn(fnIn.hostInfo, UNHEALTHY)
InD == NumIn(fnIn.hostInfo, DEACTIVATING)
InT == fnIn.desired

\* C5: the number to deactivate is max(D, max(H + U + D - T, min(2 - D, U)))
\* of the counts of HEALTHY, UNHEALTHY and DEACTIVATING hosts of the list;
\* target(5,1,0,5) = 1 and target(3,3,1,4) = 3.
C5_TargetFormula ==
    /\ pc = "out" =>
          fnOut = GreaterOf(InD, GreaterOf(InH + InU + InD - InT, LesserOf(2 - InD, InU)))
    /\ calculateDeactivateTarget(5, 1, 0, 5) = 1
    /\ calculateDeactivateTarget(3, 3, 1, 4) = 3

C5_Witness ==
    pc = "out" /\ InH = 5 /\ InU = 1 /\ InD = 0 /\ InT = 5 /\ fnOut = 1

\* C6: the target is at least D and does not decrease when U grows by one.
C6_FloorAndMonotone ==
    pc = "out" =>
        /\ fnOut >= InD
        /\ calculateDeactivateTarget(InH, InU + 1, InD, InT) >= fnOut

C6_Witness ==
    pc = "out" /\ InD = 3 /\ InU = 1 /\ InH + InU + InD < InT /\ fnOut = 3

\* C7: without surplus (H + U + D <= T) at most max(0, 2 - D) hosts are newly
\* chosen for deactivation.
C7_BlastRadius ==
    (pc = "out" /\ InH + InU + InD <= InT) =>
        fnOut - InD <= GreaterOf(0, 2 - InD)

C7_Witness ==
    pc = "out" /\ InH + InU + InD <= InT /\ InU = 3 /\ InD = 0 /\ fnOut = 2

(***************************************************************************)
(* Properties of the classifier (checked under SpecDerive)                 *)
(***************************************************************************)
InDrives == {fnIn.drives[d] : d \in DOMAIN fnIn.drives}
InAllDrivesLeaving == InDrives # {} /\ \A d \in InDrives : ~d.ShouldBeActive
InLifecycleLeaving == fnIn.State \in {"DEACTIVATING", "REMOVING", "INACTIVE"}
InDownTooLong ==
    /\ fnIn.Status = "DOWN"
    /\ \E n \in DOMAIN fnIn.nodes :
          n.mgmt /\ fnIn.nodes[n].Status = "DOWN" /\ fnIn.nodes[n].DownMinutes > 120
InDriveTrouble ==
    \E d \in InDrives : d.Status = "INACTIVE" \/ ~d.ShouldBeActive

\* C9: first match wins: DEACTIVATING iff all (and at least one) drives have
\* should-be-active false or the state is DEACTIVATING/REMOVING/INACTIVE;
\* otherwise UNHEALTHY iff DOWN with a management node down for more than 120
\* minutes, or a drive INACTIVE, or a drive with should-be-active false;
\* otherwise HEALTHY.
C9_FirstMatch ==
    pc = "out" =>
        LET deact == InAllDrivesLeaving \/ InLifecycleLeaving
            unhealthy == InDownTooLong \/ InDriveTrouble
        IN  /\ (fnOut = DEACTIVATING) <=> deact
            /\ (fnOut = UNHEALTHY) <=> (~deact /\ unhealthy)
            /\ (fnOut = HEALTHY) <=> (~deact /\ ~unhealthy)
            /\ (InAllDrivesLeaving /\ fnIn.Status = "UP") => fnOut = DEACTIVATING

C9_Witness ==
    /\ pc = "out"
    /\ InAllDrivesLeaving
    /\ fnIn.Status = "UP"
    /\ fnIn.State = "ACTIVE"
    /\ fnOut = DEACTIVATING

\* C10: a host without drives, ACTIVE and UP, is HEALTHY; a host without
\* drives is DEACTIVATING only through its lifecycle state.
C10_Driveless ==
    (pc = "out" /\ InDrives = {}) =>
        /\ (fnIn.State = "ACTIVE" /\ fnIn.Status = "UP") => fnOut = HEALTHY
        /\ (fnOut = DEACTIVATING) => InLifecycleLeaving

C10_Witness ==
    /\ pc = "out"
    /\ InDrives = {}
    /\ fnIn.State = "ACTIVE"
    /\ fnIn.Status = "UP"
    /\ fnOut = HEALTHY

(***************************************************************************)
(* Properties of a tick (checked under Spec)                               *)
(***************************************************************************)
SnapshotMethods == {"JrpcStatus", "JrpcHostList", "JrpcDrivesList", "JrpcNodeList"}
MutatingMethods ==
    {"JrpcDeactivateDrives", "JrpcDeactivateHosts", "JrpcRemoveHost", "JrpcRemoveDrive"}

IsMutating(c) == c.op = "Call" /\ c.method \in MutatingMethods
IsFailedMutating(c) == IsMutating(c) /\ ~c.ok
NoMutatingCall == \A k \in DOMAIN calls : ~IsMutating(calls[k])
SnapshotObtained ==
    \E k \in DOMAIN calls : calls[k].method = "JrpcNodeList" /\ calls[k].ok
Called(method, arg) ==
    \E k \in DOMAIN calls :
        calls[k].op = "Call" /\ calls[k].method = method /\ calls[k].arg = arg
CalledOk(method, arg) ==
    \E k \in DOMAIN calls :
        calls[k].op = "Call" /\ calls[k].method = method /\ calls[k].arg = arg /\ calls[k].ok

\* C1: a status reply with IoStatus other than STARTED or with a non-empty
\* Upgrade ends the tick with an error and without any mutating call.
C1_GateCheck ==
    (/\ Len(calls) >= 1
     /\ calls[1].ok
     /\ (systemStatus.IoStatus # "STARTED" \/ systemStatus.Upgrade # ""))
    => (pc = "done" /\ err # "" /\ Len(calls) = 1 /\ NoMutatingCall)

C1_Witness ==
    /\ Len(calls) = 1
    /\ calls[1].ok
    /\ systemStatus.IoStatus = "STARTED"
    /\ systemStatus.Upgrade # ""
    /\ pc = "done"
    /\ err # ""

\* C2: a failed snapshot call is the last call of the tick; the tick returns
\* its error and has made no mutating call.
C2_FatalToTick ==
    \A k \in DOMAIN calls :
        (calls[k].op = "Call" /\ calls[k].method \in SnapshotMethods /\ ~calls[k].ok)
        => (k = Len(calls) /\ pc = "done" /\ err = RpcError /\ NoMutatingCall)

C2_Witness ==
    /\ pc = "done"
    /\ Len(calls) = 3
    /\ calls[3].method = "JrpcDrivesList"
    /\ ~calls[3].ok
    /\ err = RpcError

TagOf(method) ==
    CASE method = "JrpcDeactivateDrives" -> "deactivateDrive"
      [] method = "JrpcDeactivateHosts" -> "deactivateHost"
      [] method = "JrpcRemoveHost" -> "removeInactive"
      [] method = "JrpcRemoveDrive" -> "removeDrive"

\* C3: once the snapshot is obtained the tick returns no error, and the
\* transient errors are exactly one tagged entry per failed mutating call.
C3_TransientErrors ==
    LET failed == SelectSeq(calls, IsFailedMutating)
    IN  /\ SnapshotObtained => err = ""
        /\ response.TransientErrors =
              [k \in 1..Len(failed) |-> TagOf(failed[k].method) \o ":" \o RpcError]

C3_Witness ==
    /\ pc = "done"
    /\ SnapshotObtained
    /\ err = ""
    /\ Len(response.TransientErrors) >= 2
    /\ \E k \in DOMAIN calls : IsMutating(calls[k]) /\ calls[k].ok

HostsActedOn ==
    {hostsList[k] : k \in 1..numToDeactivate} \cup {downHosts[k] : k \in DOMAIN downHosts}

DeactivatePlanAttempted ==
    \A h \in HostsActedOn :
        /\ \A d \in DOMAIN h.drives :
              h.drives[d].ShouldBeActive => Called("JrpcDeactivateDrives", h.drives[d].Uuid)
        /\ (\A d \in DOMAIN h.drives : h.drives[d].Status = "INACTIVE")
              => Called("JrpcDeactivateHosts", h.id)

OrphanPlanAttempted ==
    \A d \in DOMAIN driveApiList :
        (driveApiList[d].HostId = 0 - 1 /\ driveApiList[d].Status = "INACTIVE")
        => Called("JrpcRemoveDrive", driveApiList[d].Uuid)

\* C4 as claimed: every call the plan of the tick has is attempted, the
\* remove-drive calls of every cleanup-queued host included.
C4_AllPlannedCallsAttempted ==
    (pc = "done" /\ SnapshotObtained) =>
        /\ \A i \in DOMAIN inactiveHosts :
              /\ Called("JrpcRemoveHost", inactiveHosts[i].id)
              /\ \A d \in DOMAIN inactiveHosts[i].drives :
                    Called("JrpcRemoveDrive", inactiveHosts[i].drives[d].Uuid)
        /\ OrphanPlanAttempted
        /\ DeactivatePlanAttempted

\* C4 amended: every planned call is attempted whatever call failed before,
\* except that the drives of a cleanup-queued host are removed only when the
\* remove-host call for that host succeeded.
C4_RemainingCallsAttempted ==
    (pc = "done" /\ SnapshotObtained) =>
        /\ \A i \in DOMAIN inactiveHosts :
              /\ Called("JrpcRemoveHost", inactiveHosts[i].id)
              /\ \A d \in DOMAIN inactiveHosts[i].drives :
                    Called("JrpcRemoveDrive", inactiveHosts[i].drives[d].Uuid)
                    <=> CalledOk("JrpcRemoveHost", inactiveHosts[i].id)
        /\ OrphanPlanAttempted
        /\ DeactivatePlanAttempted

C4_Witness ==
    /\ pc = "done"
    /\ SnapshotObtained
    /\ Len(inactiveHosts) = 2
    /\ ~CalledOk("JrpcRemoveHost", inactiveHosts[1].id)
    /\ CalledOk("JrpcRemoveHost", inactiveHosts[2].id)

\* C8: every in-scope host classified DEACTIVATING is among the first
\* numToDeactivate hosts of the sorted list: such hosts sort first, the
\* number to deactivate is at least their count, and the tick acts on each.
C8_DeactivatingSelected ==
    SnapshotObtained =>
        LET deact == {k \in DOMAIN hostsList : hostsList[k].scaleState = DEACTIVATING}
        IN  /\ \A k \in deact : k <= numToDeactivate
            /\ \A k \in deact : \A i \in 1..k : i \in deact
            /\ numToDeactivate >= Cardinality(deact)
            /\ pc = "done" =>
                  \A k \in deact :
                     /\ \A d \in DOMAIN hostsList[k].drives :
                           hostsList[k].drives[d].ShouldBeActive
                           => Called("JrpcDeactivateDrives", hostsList[k].drives[d].Uuid)
                     /\ (\A d \in DOMAIN hostsList[k].drives :
                            hostsList[k].drives[d].Status = "INACTIVE")
                           => Called("JrpcDeactivateHosts", hostsList[k].id)

C8_Witness ==
    /\ pc = "done"
    /\ SnapshotObtained
    /\ Len(hostsList) = 2
    /\ numToDeactivate = 1
    /\ hostsList[1].scaleState = DEACTIVATING
    /\ hostsList[2].scaleState = HEALTHY
    /\ Called("JrpcDeactivateHosts", hostsList[1].id)

(***************************************************************************)
(* Properties of the sort (checked under SpecSort)                         *)
(***************************************************************************)
NumInactive(h) == Cardinality({d \in DOMAIN h.drives : h.drives[d].Status = "INACTIVE"})
SortKey(h) == <<h.scaleState, 0 - NumInactive(h), h.AddedTime>>
LexLeq(k1, k2) ==
    \/ k1[1] < k2[1]
    \/ k1[1] = k2[1] /\ k1[2] < k2[2]
    \/ k1[1] = k2[1] /\ k1[2] = k2[2] /\ k1[3] <= k2[3]
SameHosts(l1, l2) ==
    /\ Len(l1) = Len(l2)
    /\ {l1[k] : k \in DOMAIN l1} = {l2[k] : k \in DOMAIN l2}

\* C11: the sorted list holds the hosts that were given, and for every pair
\* of positions i < j the key (scaleState, -unhealthyDrives, addedTime) of
\* host i is lexicographically at most that of host j: DEACTIVATING before
\* UNHEALTHY before HEALTHY, then more inactive drives first, then oldest first.
C11_SortedOrder ==
    pc = "out" =>
        /\ SameHosts(fnIn, fnOut)
        /\ \A i, j \in DOMAIN fnOut :
                i < j => LexLeq(SortKey(fnOut[i]), SortKey(fnOut[j]))

\* a list that came in another order, sorted by drive count and then by age
C11_Witness ==
    /\ pc = "out"
    /\ Len(fnOut) = 3
    /\ fnOut # fnIn
    /\ fnOut[1].scaleState = fnOut[3].scaleState
    /\ NumInactive(fnOut[1]) > NumInactive(fnOut[2])
    /\ NumInactive(fnOut[2]) = NumInactive(fnOut[3])
    /\ fnOut[2].AddedTime < fnOut[3].AddedTime

StatesOf(l) == [k \in DOMAIN l |-> l[k].scaleState]
EqualOtherFields(l) ==
    \A i, j \in DOMAIN l :
        NumInactive(l[i]) = NumInactive(l[j]) /\ l[i].AddedTime = l[j].AddedTime

\* C12: on the hosts of any list the comparator is irreflexive, asymmetric
\* and transitive, of two hosts with different keys (scale state, inactive
\* drive count, added time) exactly one precedes the other, two hosts with
\* the same key do not precede one another, and the hosts
\* [healthy, unhealthy, deactivating] with equal other fields sort to
\* [deactivating, unhealthy, healthy].
C12_StrictTotalOrder ==
    LET H == {fnIn[k] : k \in DOMAIN fnIn}
    IN  /\ \A a \in H : ~less(a, a)
        /\ \A a, b \in H : less(a, b) => ~less(b, a)
        /\ \A a, b, c \in H : less(a, b) /\ less(b, c) => less(a, c)
        /\ \A a, b \in H :
                IF SortKey(a) # SortKey(b)
                THEN less(a, b) # less(b, a)
                ELSE ~less(a, b) /\ ~less(b, a)
        /\ (pc = "out" /\ StatesOf(fnIn) = <<HEALTHY, UNHEALTHY, DEACTIVATING>>
                /\ EqualOtherFields(fnIn))
              => StatesOf(fnOut) = <<DEACTIVATING, UNHEALTHY, HEALTHY>>

C12_Witness ==
    /\ pc = "out"
    /\ StatesOf(fnIn) = <<HEALTHY, UNHEALTHY, DEACTIVATING>>
    /\ EqualOtherFields(fnIn)
    /\ StatesOf(fnOut) = <<DEACTIVATING, UNHEALTHY, HEALTHY>>

(***************************************************************************)
(* Properties of the three host lists (checked under Spec)                 *)
(***************************************************************************)
IdsOf(l) == {l[k].id : k \in DOMAIN l}
GroupInstanceIds == {info.Instances[k].Id : k \in DOMAIN info.Instances}
GroupIps == {info.Instances[k].PrivateIp : k \in DOMAIN info.Instances}
IdMatch(h) == hostsApiList[h].InstanceId \in GroupInstanceIds
IpMatch(h) == hostsApiList[h].HostIp \in GroupIps

\* C13: a host of the snapshot whose state is not INACTIVE is in the in-scope
\* list iff its instance id is the id of a group instance, or its status is
\* DOWN and its IP is the private IP of a group instance; a host that is not
\* DOWN and has no instance id match is not in the list.
C13_Membership ==
    SnapshotObtained =>
        \A h \in DOMAIN hostsApiList :
            hostsApiList[h].State # "INACTIVE" =>
                /\ h \in IdsOf(hostsList)
                      <=> (IdMatch(h) \/ (hostsApiList[h].Status = "DOWN" /\ IpMatch(h)))
                /\ (hostsApiList[h].Status # "DOWN" /\ ~IdMatch(h))
                      => h \notin IdsOf(hostsList)

\* two hosts without instance id on machines of the group: the DOWN one is
\* in scope, the UP one is not
C13_Witness ==
    /\ SnapshotObtained
    /\ \E h \in DOMAIN hostsApiList :
          /\ hostsApiList[h].State # "INACTIVE" /\ hostsApiList[h].Status = "DOWN"
          /\ ~IdMatch(h) /\ IpMatch(h)
          /\ h \in IdsOf(hostsList)
    /\ \E h \in DOMAIN hostsApiList :
          /\ hostsApiList[h].State # "INACTIVE" /\ hostsApiList[h].Status = "UP"
          /\ ~IdMatch(h) /\ IpMatch(h)
          /\ h \notin IdsOf(hostsList)

\* C14: an INACTIVE host of the snapshot is in the cleanup queue iff its IP
\* is the private IP of a group instance, or the role is backend and the
\* host has been INACTIVE for more than backendCleanupDelay; so without an
\* IP match it is never queued for another role, nor for the backend role
\* inside the grace window.
C14_CleanupQueue ==
    SnapshotObtained =>
        \A h \in DOMAIN hostsApiList :
            hostsApiList[h].State = "INACTIVE" =>
                /\ h \in IdsOf(inactiveHosts)
                      <=> \/ IpMatch(h)
                          \/ /\ info.Role = "backend"
                             /\ hostsApiList[h].StateChangedMinutes > backendCleanupDelay
                /\ (info.Role # "backend" /\ ~IpMatch(h)) => h \notin IdsOf(inactiveHosts)
                /\ (info.Role = "backend" /\ ~IpMatch(h)
                        /\ hostsApiList[h].StateChangedMinutes <= backendCleanupDelay)
                      => h \notin IdsOf(inactiveHosts)

\* a backend tick with two INACTIVE hosts of another group: the one past the
\* grace window is queued, the one inside it is not
C14_Witness ==
    /\ SnapshotObtained
    /\ info.Role = "backend"
    /\ \E h \in DOMAIN hostsApiList :
          /\ hostsApiList[h].State = "INACTIVE" /\ ~IpMatch(h)
          /\ hostsApiList[h].StateChangedMinutes > backendCleanupDelay
          /\ h \in IdsOf(inactiveHosts)
    /\ \E h \in DOMAIN hostsApiList :
          /\ hostsApiList[h].State = "INACTIVE" /\ ~IpMatch(h)
          /\ hostsApiList[h].StateChangedMinutes <= backendCleanupDelay
          /\ h \notin IdsOf(inactiveHosts)

ManagementDownLongerThan(h, minutes) ==
    \E n \in DOMAIN hostsMap[h].nodes :
        /\ n.mgmt
        /\ hostsMap[h].nodes[n].Status = "DOWN"
        /\ hostsMap[h].nodes[n].DownMinutes > minutes

\* C15: in a backend tick a host of the snapshot is queued for forced
\* deactivation iff its state is not INACTIVE, its status is DOWN and one of
\* its management nodes has been down for more than 3 hours, in the group
\* or not; in a tick of another role the queue is empty.
C15_ForcedDeactivation ==
    SnapshotObtained =>
        /\ IdsOf(downHosts) \subseteq DOMAIN hostsApiList
        /\ info.Role = "backend" =>
              \A h \in DOMAIN hostsApiList :
                  h \in IdsOf(downHosts)
                  <=> /\ hostsApiList[h].State # "INACTIVE"
                      /\ hostsApiList[h].Status = "DOWN"
                      /\ ManagementDownLongerThan(h, 3 * 60)
        /\ info.Role # "backend" => downHosts = <<>>

\* a backend tick: a DOWN host of another group past the 3 hours is queued,
\* a DOWN host of the group short of them is not
C15_Witness ==
    /\ SnapshotObtained
    /\ info.Role = "backend"
    /\ \E h \in DOMAIN hostsApiList :
          /\ ~IdMatch(h) /\ ~IpMatch(h)
          /\ h \in IdsOf(downHosts)
          /\ h \notin IdsOf(hostsList)
    /\ \E h \in DOMAIN hostsApiList :
          /\ hostsApiList[h].Status = "DOWN" /\ hostsApiList[h].State # "INACTIVE"
          /\ h \in IdsOf(hostsList)
          /\ ~ManagementDownLongerThan(h, 3 * 60)
          /\ ManagementDownLongerThan(h, 2 * 60)
          /\ h \notin IdsOf(downHosts)

(***************************************************************************)
(* Properties of the mutating phase (checked under Spec)                   *)
(***************************************************************************)
DrivesOfHost(h) == {d \in DOMAIN driveApiList : driveApiList[d].HostId = h}
AllInactive(h) == \A d \in DrivesOfHost(h) : driveApiList[d].Status = "INACTIVE"
IsCall(k, method) == calls[k].op = "Call" /\ calls[k].method = method
\* the endpoint ip was dropped and the call for host h came right after
DroppedThenCalled(ip, method, h) ==
    \E k \in DOMAIN calls :
        /\ k < Len(calls)
        /\ calls[k].op = "Drop" /\ calls[k].ip = ip
        /\ IsCall(k + 1, method) /\ calls[k + 1].arg = h

ArgsOf(method) == {calls[k].arg : k \in {x \in DOMAIN calls : IsCall(x, method)}}

\* C16: at the end of a tick with a snapshot the drives that got a
\* deactivate-drive call are exactly the drives of the selected and of the
\* forced-down hosts with ShouldBeActive set, and the hosts that got a
\* deactivate-host call are exactly those of these hosts whose drives are
\* all INACTIVE; a deactivate-host call comes right after the drop of the
\* host's endpoint, and an endpoint is dropped only right before a
\* deactivate-host or remove-host call for a host on it.
C16_DeactivateStep ==
    (pc = "done" /\ SnapshotObtained) =>
        LET acted == {hostsList[k].id : k \in 1..numToDeactivate} \cup IdsOf(downHosts)
            flagged == {d \in DOMAIN driveApiList :
                           /\ driveApiList[d].HostId \in acted
                           /\ driveApiList[d].ShouldBeActive}
        IN  /\ ArgsOf("JrpcDeactivateDrives") = {driveApiList[d].Uuid : d \in flagged}
            /\ ArgsOf("JrpcDeactivateHosts") = {h \in acted : AllInactive(h)}
            /\ \A k \in DOMAIN calls :
                  /\ IsCall(k, "JrpcDeactivateHosts") =>
                        /\ ~calls[k].flag
                        /\ k > 1
                        /\ calls[k - 1].op = "Drop"
                        /\ calls[k - 1].ip = hostsApiList[calls[k].arg].HostIp
                  /\ calls[k].op = "Drop" =>
                        /\ k < Len(calls)
                        /\ IsCall(k + 1, "JrpcDeactivateHosts")
                              \/ IsCall(k + 1, "JrpcRemoveHost")
                        /\ hostsApiList[calls[k + 1].arg].HostIp = calls[k].ip

\* a host acted on with two INACTIVE drives, one of them still flagged
\* ShouldBeActive: only that one is deactivated, then the host is
C16_Witness ==
    /\ pc = "done"
    /\ SnapshotObtained
    /\ \E h \in HostsActedOn :
          /\ AllInactive(h.id)
          /\ \E d1, d2 \in DrivesOfHost(h.id) :
                /\ driveApiList[d1].ShouldBeActive
                /\ ~driveApiList[d2].ShouldBeActive
                /\ Called("JrpcDeactivateDrives", driveApiList[d1].Uuid)
                /\ ~Called("JrpcDeactivateDrives", driveApiList[d2].Uuid)
          /\ DroppedThenCalled(h.HostIp, "JrpcDeactivateHosts", h.id)

\* positions of the remove-host calls in the record
RemoveHostPositions == {k \in DOMAIN calls : IsCall(k, "JrpcRemoveHost")}
\* how many remove-host calls were made up to position k
RemoveHostRank(k) == Cardinality({j \in RemoveHostPositions : j <= k})
\* the group instances with private IP ip
InstancesAt(ip) ==
    {info.Instances[m] : m \in {x \in DOMAIN info.Instances :
                                   info.Instances[x].PrivateIp = ip}}
\* the terminate candidates the remove-host calls up to position k account for
RECURSIVE TerminateUpTo(_)
TerminateUpTo(k) ==
    IF k = 0 THEN <<>>
    ELSE IF IsCall(k, "JrpcRemoveHost") /\ calls[k].ok
              /\ InstancesAt(hostsApiList[calls[k].arg].HostIp) # {}
         THEN Append(TerminateUpTo(k - 1),
                     CHOOSE x \in InstancesAt(hostsApiList[calls[k].arg].HostIp) : TRUE)
         ELSE TerminateUpTo(k - 1)
\* a remove-drive call for drive d was made after position k and before the
\* next remove-host call
RemovedRightAfter(d, k) ==
    \E j \in DOMAIN calls :
        /\ j > k
        /\ IsCall(j, "JrpcRemoveDrive") /\ calls[j].arg = driveApiList[d].Uuid
        /\ \A x \in (k + 1)..j : IsCall(x, "JrpcRemoveDrive")

\* the calls the remove step makes for the i-th cleanup-queued host in any
\* case: the i-th remove-host call of the record is for it, has no_wait set
\* and comes right after the drop of the host's endpoint
DropThenRemoveHost(i) ==
    \E k \in RemoveHostPositions :
        /\ RemoveHostRank(k) = i
        /\ calls[k].arg = inactiveHosts[i].id
        /\ calls[k].flag
        /\ k > 1
        /\ calls[k - 1].op = "Drop" /\ calls[k - 1].ip = inactiveHosts[i].HostIp

\* C17 as claimed: for every cleanup-queued host the endpoint is dropped,
\* remove-host is called, the instance on the host's IP is a terminate
\* candidate and every drive of the host gets its remove-drive call after
\* the remove-host call.
C17_RemoveStepAlways ==
    (pc = "done" /\ SnapshotObtained) =>
        \A i \in DOMAIN inactiveHosts :
            /\ DropThenRemoveHost(i)
            /\ \A x \in InstancesAt(inactiveHosts[i].HostIp) :
                  \E t \in DOMAIN response.ToTerminate : response.ToTerminate[t] = x
            /\ \A k \in RemoveHostPositions :
                  RemoveHostRank(k) = i =>
                      \A d \in DrivesOfHost(inactiveHosts[i].id) : RemovedRightAfter(d, k)

\* C17 amended: the remove-host calls of the record are for the
\* cleanup-queued hosts in their order, each with no_wait set and right
\* after the drop of the host's endpoint; the terminate candidates are, at
\* every moment, the instances on the IPs of the hosts whose remove-host call
\* succeeded so far, in the order of the calls; and at the end of the tick
\* the drives of a host got their remove-drive calls right after its
\* remove-host call if that call succeeded and no remove-drive call if it
\* failed.
C17_RemoveStep ==
    SnapshotObtained =>
        /\ Cardinality(RemoveHostPositions) <= Len(inactiveHosts)
        /\ \A i \in 1..Cardinality(RemoveHostPositions) : DropThenRemoveHost(i)
        /\ response.ToTerminate = TerminateUpTo(Len(calls))
        /\ pc = "done" =>
              /\ Cardinality(RemoveHostPositions) = Len(inactiveHosts)
              /\ \A k \in RemoveHostPositions :
                    \A d \in DrivesOfHost(calls[k].arg) :
                        IF calls[k].ok
                        THEN RemovedRightAfter(d, k)
                        ELSE ~Called("JrpcRemoveDrive", driveApiList[d].Uuid)

\* a cleanup-queued host on a machine of the group with a drive: dropped,
\* removed, its instance noted, its drive removed
C17_Witness ==
    /\ pc = "done"
    /\ SnapshotObtained
    /\ Len(inactiveHosts) = 1
    /\ DrivesOfHost(inactiveHosts[1].id) # {}
    /\ Len(response.ToTerminate) = 1
    /\ response.ToTerminate[1].PrivateIp = inactiveHosts[1].HostIp
    /\ \E k \in RemoveHostPositions :
          /\ calls[k].ok
          /\ calls[k - 1].op = "Drop"
          /\ \A d \in DrivesOfHost(inactiveHosts[1].id) : RemovedRightAfter(d, k)

\* C18: at the end of every tick with a snapshot, whatever hosts it has, a
\* drive of the drive list with host id -1 has got a remove-drive call iff
\* its status is INACTIVE.
C18_OrphanDrives ==
    (pc = "done" /\ SnapshotObtained) =>
        \A d \in DOMAIN driveApiList :
            driveApiList[d].HostId = 0 - 1 =>
                (Called("JrpcRemoveDrive", driveApiList[d].Uuid)
                 <=> driveApiList[d].Status = "INACTIVE")

\* a tick without any host: the INACTIVE orphan drive is removed, the
\* ACTIVE one is not
C18_Witness ==
    /\ pc = "done"
    /\ SnapshotObtained
    /\ hostsApiList = <<>>
    /\ \E d1, d2 \in DOMAIN driveApiList :
          /\ driveApiList[d1].HostId = 0 - 1 /\ driveApiList[d1].Status = "INACTIVE"
          /\ driveApiList[d2].HostId = 0 - 1 /\ driveApiList[d2].Status = "ACTIVE"
          /\ Called("JrpcRemoveDrive", driveApiList[d1].Uuid)
          /\ ~Called("JrpcRemoveDrive", driveApiList[d2].Uuid)

(***************************************************************************)
(* Properties of the response and of the read calls (checked under Spec)   *)
(***************************************************************************)
InScopeIds ==
    {h \in DOMAIN hostsApiList :
        /\ hostsApiList[h].State # "INACTIVE"
        /\ IdMatch(h) \/ (hostsApiList[h].Status = "DOWN" /\ IpMatch(h))}

\* C19: at the end of a tick with a snapshot the response host list has one
\* entry for each in-scope host and no other entry, and an entry carries the
\* instance id, state and added time the host list call reported for its
\* host id.
C19_ResponseHosts ==
    (pc = "done" /\ SnapshotObtained) =>
        /\ {response.Hosts[k].HostId : k \in DOMAIN response.Hosts} = InScopeIds
        /\ Len(response.Hosts) = Cardinality(InScopeIds)
        /\ \A k \in DOMAIN response.Hosts :
              LET h == response.Hosts[k].HostId
              IN  /\ DOMAIN response.Hosts[k] = {"InstanceId", "State", "AddedTime", "HostId"}
                  /\ response.Hosts[k].InstanceId = hostsApiList[h].InstanceId
                  /\ response.Hosts[k].State = hostsApiList[h].State
                  /\ response.Hosts[k].AddedTime = hostsApiList[h].AddedTime

\* a tick with two hosts in scope, the first of them deactivated by the
\* tick: both are reported, the first still in state ACTIVE
C19_Witness ==
    /\ pc = "done"
    /\ SnapshotObtained
    /\ Len(hostsList) = 2
    /\ numToDeactivate = 1
    /\ downHosts = <<>>
    /\ CalledOk("JrpcDeactivateHosts", hostsList[1].id)
    /\ Len(response.Hosts) = 2
    /\ response.Hosts[1].HostId = hostsList[1].id
    /\ response.Hosts[1].State = "ACTIVE"

\* the read calls a tick of the role makes, in their order
ReadCalls ==
    IF info.Role = "backend"
    THEN <<"JrpcStatus", "JrpcHostList", "JrpcDrivesList", "JrpcNodeList">>
    ELSE <<"JrpcStatus", "JrpcHostList", "JrpcNodeList">>

\* C20: the record of calls starts with the read calls in the order status,
\* host list, drive list (backend role only), node list; a read call is made
\* only after the one before it succeeded, the host list call only after a
\* status reply that passes the gate check; every later entry is a mutating
\* call or a drop, made after the node list call succeeded.
C20_ReadCallOrder ==
    \A k \in DOMAIN calls :
        IF k <= Len(ReadCalls)
        THEN /\ IsCall(k, ReadCalls[k])
             /\ k > 1 => calls[k - 1].ok
             /\ k > 1 => (systemStatus.IoStatus = "STARTED" /\ systemStatus.Upgrade = "")
        ELSE /\ calls[k].op = "Drop" \/ IsMutating(calls[k])
             /\ calls[Len(ReadCalls)].ok

\* a client tick: status, host list, node list and then a mutating call
C20_Witness ==
    /\ info.Role = "client"
    /\ Len(calls) > 3
    /\ IsCall(1, "JrpcStatus") /\ IsCall(2, "JrpcHostList") /\ IsCall(3, "JrpcNodeList")
    /\ \E k \in DOMAIN calls : IsMutating(calls[k])

(***************************************************************************)
(* Order of the mutating calls of a tick (checked under Spec)              *)
(***************************************************************************)
DriveOwner(uuid) ==
    driveApiList[CHOOSE d \in DOMAIN driveApiList : driveApiList[d].Uuid = uuid].HostId
IsDeactivateCall(k) ==
    IsCall(k, "JrpcDeactivateDrives") \/ IsCall(k, "JrpcDeactivateHosts")
IsRemoveCall(k) == IsCall(k, "JrpcRemoveHost") \/ IsCall(k, "JrpcRemoveDrive")
IsOrphanRemoval(k) == IsCall(k, "JrpcRemoveDrive") /\ DriveOwner(calls[k].arg) = 0 - 1
\* the host a deactivate or remove call is about
HostOfCall(k) ==
    IF IsCall(k, "JrpcDeactivateHosts") \/ IsCall(k, "JrpcRemoveHost")
    THEN calls[k].arg
    ELSE DriveOwner(calls[k].arg)

\* C21 as claimed: the calls for the selected and for the forced-down hosts
\* come before the calls for the cleanup-queued hosts.
C21_DeactivateBeforeRemove ==
    \A j, k \in DOMAIN calls :
        (IsDeactivateCall(j) /\ IsRemoveCall(k) /\ ~IsOrphanRemoval(k)) => j < k

\* the stage of the tick entry k of the record belongs to (1: removal for a
\* cleanup-queued host, 2: removal of an orphan drive, 3: deactivate call,
\* 0: any other entry) and, for a deactivate call, the host it is about
StageOfCall(k) ==
    IF IsDeactivateCall(k) THEN [stage |-> 3, host |-> HostOfCall(k)]
    ELSE IF ~IsRemoveCall(k) THEN [stage |-> 0, host |-> 0]
    ELSE IF IsOrphanRemoval(k) THEN [stage |-> 2, host |-> 0]
    ELSE [stage |-> 1, host |-> 0]
IsStaged(e) == e.stage > 0
RECURSIVE StagesUpTo(_)
StagesUpTo(k) == IF k = 0 THEN <<>> ELSE Append(StagesUpTo(k - 1), StageOfCall(k))

\* C21 amended: the calls for the cleanup-queued hosts come first, then the
\* removals of the orphan drives, then the deactivate calls, those for the
\* selected hosts in the order of the sorted list before those for the
\* forced-down hosts.
C21_ExecutionOrder ==
    SnapshotObtained =>
        LET plan == [k \in 1..numToDeactivate |-> hostsList[k].id]
                    \o [k \in DOMAIN downHosts |-> downHosts[k].id]
            st == SelectSeq(StagesUpTo(Len(calls)), IsStaged)
            deactivations == {k \in DOMAIN st : st[k].stage = 3}
        IN  /\ \A k \in 1..(Len(st) - 1) : st[k].stage <= st[k + 1].stage
            /\ \A j, k \in deactivations :
                  j < k => \E p, q \in DOMAIN plan :
                              p <= q /\ plan[p] = st[j].host /\ plan[q] = st[k].host

\* a cleanup-queued host is removed, then a selected host is deactivated
C21_Witness ==
    /\ pc = "done"
    /\ \E j, k \in DOMAIN calls :
          /\ j < k
          /\ IsCall(j, "JrpcRemoveHost")
          /\ IsCall(k, "JrpcDeactivateHosts")
          /\ numToDeactivate >= 1
          /\ calls[k].arg = hostsList[1].id

(***************************************************************************)
(* Two runs on the same upstream state (checked under SpecTwice)           *)
(***************************************************************************)
SecondRunDone == fnIn # <<>> /\ pc = "done"

\* C22 as claimed: the second run on the same input and the same replies
\* returns the terminate candidates and the host list of the first run,
\* element for element.
C22_SameLists ==
    SecondRunDone =>
        /\ response.Hosts = fnIn.Hosts
        /\ response.ToTerminate = fnIn.ToTerminate

Targets(replies) == {<<r.method, r.arg>> : r \in replies}

\* C23 as claimed: the second run, built on the same snapshot, issues its
\* mutating calls against hosts and drives the first run issued them
\* against.
C23_SameTargets ==
    SecondRunDone => Targets(firstRun.replies) \subseteq Targets(fnIn.replies)

(***************************************************************************)
(* Properties of the pool (checked under SpecPool)                         *)
(***************************************************************************)
PoolIps == {fnOut.Ips[k] : k \in DOMAIN fnOut.Ips}
TriedNow == {cur[k] : k \in DOMAIN cur}
JustReturned(ok) ==
    /\ pc = "idle"
    /\ calls # <<>>
    /\ calls[Len(calls)] = [op |-> "Return", ip |-> 0, ok |-> ok]

\* C24: a call returns an error only when every endpoint that has not been
\* dropped was tried by it and none of them answers; it succeeds whenever
\* an endpoint that has not been dropped answers; an attempt that failed
\* does not leave its endpoint active; and a call tries no endpoint twice,
\* so that it makes at most as many attempts as the pool has endpoints.
C24_PoolFailover ==
    /\ JustReturned(FALSE) =>
          (PoolIps \subseteq TriedNow /\ PoolIps \cap fnIn.answering = {})
    /\ (JustReturned(TRUE) \/ JustReturned(FALSE)) =>
          (JustReturned(TRUE) <=> PoolIps \cap fnIn.answering # {})
    /\ (calls # <<>> /\ calls[Len(calls)].op = "Attempt" /\ ~calls[Len(calls)].ok)
          => fnOut.Active # calls[Len(calls)].ip
    /\ \A j, k \in DOMAIN cur : j # k => cur[j] # cur[k]
    /\ Len(cur) <= MaxEndpoints

\* a call that failed on two endpoints and was answered by the third
C24_Witness ==
    /\ JustReturned(TRUE)
    /\ Len(cur) = 3
    /\ fnOut.Active = cur[3]

\* C25: no attempt is made on an endpoint after it was dropped, so a call
\* that follows the drop of a host's endpoint, and every later call, is
\* sent to other endpoints.
C25_PoolDrop ==
    \A j, k \in DOMAIN calls :
        (j < k /\ calls[j].op = "Drop" /\ calls[k].op = "Attempt")
        => calls[k].ip # calls[j].ip

\* the active endpoint is dropped and the next call is answered by another
C25_Witness ==
    \E j \in DOMAIN calls :
        /\ j > 2 /\ j < Len(calls)
        /\ calls[j].op = "Drop"
        /\ calls[j - 2] = [op |-> "Attempt", ip |-> calls[j].ip, ok |-> TRUE]
        /\ calls[j + 1].op = "Attempt" /\ calls[j + 1].ok

(***************************************************************************)
(* Properties of EnsureResource (checked under SpecEnsure)                 *)
(***************************************************************************)
WasCalled(method) == \E k \in DOMAIN calls : calls[k] = method

\* C26: Fetch is the first call; when Fetch fails its error is returned and
\* nothing else is called; otherwise Create is called iff the deployed
\* version is empty, Update iff it is not empty and differs from the target
\* version, and neither when the two are equal; Create and Update are never
\* both called, Delete never is, and the error returned is that of the last
\* call.
C26_EnsureResource ==
    /\ calls # <<>> => calls[1] = "Fetch"
    /\ \A k \in DOMAIN calls : k > 1 => calls[k] \in {"Create", "Update"}
    /\ ~(WasCalled("Create") /\ WasCalled("Update"))
    /\ ~WasCalled("Delete")
    /\ pc = "done" =>
          IF ~fnIn.fetchOk
          THEN calls = <<"Fetch">> /\ err = "Fetch failed"
          ELSE /\ WasCalled("Create") <=> fnIn.DeployedVersion = ""
               /\ WasCalled("Update") <=>
                     (fnIn.DeployedVersion # "" /\ fnIn.DeployedVersion # fnIn.TargetVersion)
               /\ fnIn.DeployedVersion = fnIn.TargetVersion => calls = <<"Fetch">>
               /\ Len(calls) <= 2
               /\ (err = "") <=>
                     \/ calls = <<"Fetch">>
                     \/ WasCalled("Create") /\ fnIn.createOk
                     \/ WasCalled("Update") /\ fnIn.updateOk

\* a resource that is not deployed: fetched, then created
C26_Witness ==
    /\ pc = "done"
    /\ fnIn.DeployedVersion = ""
    /\ calls = <<"Fetch", "Create">>
    /\ err = ""

(***************************************************************************)
(* Properties of the terminate list and of the deactivate calls (checked   *)
(* under Spec)                                                             *)
(***************************************************************************)
\* C27: within a tick no two deactivate-host calls are for the same host
\* and no two deactivate-drive calls are for the same drive.
C27_SingleDeactivation ==
    \A j, k \in DOMAIN calls :
        /\ (j < k /\ IsCall(j, "JrpcDeactivateHosts") /\ IsCall(k, "JrpcDeactivateHosts"))
              => calls[j].arg # calls[k].arg
        /\ (j < k /\ IsCall(j, "JrpcDeactivateDrives") /\ IsCall(k, "JrpcDeactivateDrives"))
              => calls[j].arg # calls[k].arg

FailedRemovals == {k \in RemoveHostPositions : ~calls[k].ok}
RemoveInactiveErrors ==
    {k \in DOMAIN response.TransientErrors :
        response.TransientErrors[k] = "removeInactive" \o ":" \o RpcError}

\* C28: every instance on the terminate list has the private IP of a host
\* that is INACTIVE in the snapshot and for which a remove-host call of this
\* tick succeeded; a failed remove-host call adds no instance (the list is
\* no longer than the number of successful calls) and leaves one
\* removeInactive transient error each.
C28_TerminateOnlyRemoved ==
    SnapshotObtained =>
        /\ \A t \in DOMAIN response.ToTerminate :
              \E k \in RemoveHostPositions :
                  /\ calls[k].ok
                  /\ hostsApiList[calls[k].arg].State = "INACTIVE"
                  /\ hostsApiList[calls[k].arg].HostIp = response.ToTerminate[t].PrivateIp
        /\ Len(response.ToTerminate) <= Cardinality(RemoveHostPositions \ FailedRemovals)
        /\ Cardinality(RemoveInactiveErrors) = Cardinality(FailedRemovals)

\* two cleanup-queued hosts on machines of the group: the removal of one
\* failed, that of the other succeeded, and only the instance of the second
\* is on the terminate list
C28_Witness ==
    /\ pc = "done"
    /\ SnapshotObtained
    /\ \E j, k \in RemoveHostPositions :
          /\ ~calls[j].ok /\ calls[k].ok
          /\ InstancesAt(hostsApiList[calls[j].arg].HostIp) # {}
          /\ hostsApiList[calls[j].arg].HostIp # hostsApiList[calls[k].arg].HostIp
          /\ Len(response.ToTerminate) = 1
          /\ response.ToTerminate[1].PrivateIp = hostsApiList[calls[k].arg].HostIp
    /\ Cardinality(RemoveInactiveErrors) = 1

\* C29: no instance on the terminate list is, by instance id or by private
\* IP, the instance of a host of the response host list.
C29_SafeToTerminate ==
    pc = "done" =>
        \A t \in DOMAIN response.ToTerminate :
            \A k \in DOMAIN response.Hosts :
                /\ response.ToTerminate[t].Id # response.Hosts[k].InstanceId
                /\ response.ToTerminate[t].PrivateIp #
                      hostsApiList[response.Hosts[k].HostId].HostIp

DeactivatedHosts ==
    {calls[k].arg : k \in {x \in DOMAIN calls : IsCall(x, "JrpcDeactivateHosts")}}

\* C30: a deactivate-host call is made only for a host all of whose drives
\* are INACTIVE in the drive list of this tick; a host with a drive that is
\* not INACTIVE gets no deactivate-host call in the tick that issues the
\* deactivate-drive call for that drive.
C30_DrivesBeforeHost ==
    /\ \A h \in DeactivatedHosts : AllInactive(h)
    /\ \A d \in DOMAIN driveApiList :
          (/\ driveApiList[d].Status # "INACTIVE"
           /\ Called("JrpcDeactivateDrives", driveApiList[d].Uuid))
              => driveApiList[d].HostId \notin DeactivatedHosts

\* a selected host with an ACTIVE drive: the tick is over, the drive got its
\* deactivate-drive call, the host no deactivate-host call
C30_Witness ==
    /\ pc = "done"
    /\ SnapshotObtained
    /\ \E h \in HostsActedOn :
          /\ \E d \in DrivesOfHost(h.id) :
                /\ driveApiList[d].Status = "ACTIVE"
                /\ driveApiList[d].ShouldBeActive
                /\ Called("JrpcDeactivateDrives", driveApiList[d].Uuid)
          /\ h.id \notin DeactivatedHosts

(***************************************************************************)
(* Properties of the scope of a tick (checked under Spec)                  *)
(***************************************************************************)
RemovedHosts ==
    {calls[k].arg : k \in {x \in DOMAIN calls : IsCall(x, "JrpcRemoveHost")}}
\* the drives of the drive list that got a call of the method
DrivesCalled(method) ==
    LET args == ArgsOf(method)
    IN  {d \in DOMAIN driveApiList : driveApiList[d].Uuid \in args}
DeactivatedDriveOwners ==
    {driveApiList[d].HostId : d \in DrivesCalled("JrpcDeactivateDrives")}

\* C31: remove-host is called only for hosts the host list reports INACTIVE,
\* deactivate-drive and deactivate-host only for hosts it reports in another
\* state, so that no host gets both; the cleanup queue shares no host with
\* the in-scope list or with the forced-down list.
C31_RemoveDeactivateDisjoint ==
    SnapshotObtained =>
        LET deactivated == DeactivatedHosts \cup DeactivatedDriveOwners
        IN  /\ \A h \in RemovedHosts : hostsApiList[h].State = "INACTIVE"
            /\ \A h \in deactivated : hostsApiList[h].State # "INACTIVE"
            /\ RemovedHosts \cap deactivated = {}
            /\ IdsOf(inactiveHosts) \cap (IdsOf(hostsList) \cup IdsOf(downHosts)) = {}

\* a backend tick with a forced-down host that removed one host and
\* deactivated another
C31_Witness ==
    /\ pc = "done"
    /\ SnapshotObtained
    /\ RemovedHosts # {}
    /\ DeactivatedHosts # {}
    /\ downHosts # <<>>
    /\ inactiveHosts # <<>>

HealthyInScope == {k \in DOMAIN hostsList : hostsList[k].scaleState = HEALTHY}
HealthySelected == {k \in HealthyInScope : k <= numToDeactivate}

\* C32: among the selected hosts (the first numToDeactivate of the sorted
\* list) the HEALTHY ones number max(0, H - T), with H the HEALTHY hosts in
\* scope and T the desired capacity; a HEALTHY host is selected only when
\* H > T, and then every UNHEALTHY and every DEACTIVATING host in scope is
\* selected and stands before it.
C32_HealthyCapacity ==
    SnapshotObtained =>
        /\ Cardinality(HealthySelected) =
              GreaterOf(0, Cardinality(HealthyInScope) - info.DesiredCapacity)
        /\ HealthySelected # {} =>
              /\ Cardinality(HealthyInScope) > info.DesiredCapacity
              /\ \A k \in DOMAIN hostsList \ HealthyInScope :
                    /\ k <= numToDeactivate
                    /\ \A j \in HealthySelected : k < j

\* two HEALTHY hosts for a desired capacity of one: one of them is selected
C32_Witness ==
    /\ pc = "done"
    /\ SnapshotObtained
    /\ Cardinality(HealthyInScope) = 2
    /\ info.DesiredCapacity = 1
    /\ HealthySelected = {1}
    /\ Called("JrpcDeactivateHosts", hostsList[1].id)

(***************************************************************************)
(* Bound of the planner (checked under SpecTarget)                         *)
(***************************************************************************)
\* C33: for every host list and every desired capacity T >= 0 the number to
\* deactivate is at least 0 and at most H + U + D, the length of the list,
\* so that the first numToDeactivate hosts of the list exist.
C33_SelectionBound ==
    (pc = "out" /\ InT >= 0) =>
        /\ InH + InU + InD = Len(fnIn.hostInfo)
        /\ 0 <= fnOut
        /\ fnOut <= InH + InU + InD
        /\ DOMAIN SubSeq(fnIn.hostInfo, 1, fnOut) = 1..fnOut

\* no desired capacity and hosts of every kind: the whole list is selected
C33_Witness ==
    /\ pc = "out"
    /\ InT = 0
    /\ InH > 0 /\ InU > 0 /\ InD > 0
    /\ fnOut = Len(fnIn.hostInfo)

(***************************************************************************)
(* Frame of a tick (checked under Spec)                                    *)
(***************************************************************************)
SelectedIds == {hostsList[k].id : k \in 1..numToDeactivate}
UnownedDrives ==
    {d \in DOMAIN driveApiList :
        /\ driveApiList[d].HostId \notin DOMAIN hostsApiList
        /\ driveApiList[d].HostId # 0 - 1}

\* C34: remove-host is called only for hosts of the cleanup queue,
\* deactivate-host and deactivate-drive only for (drives of) selected and
\* forced-down hosts, remove-drive only for drives of hosts of the cleanup
\* queue and for orphan drives (host id -1); a drive whose host id is in no
\* host list entry and is not -1 gets no call.
C34_Frame ==
    SnapshotObtained =>
        LET acted == SelectedIds \cup IdsOf(downHosts)
            queue == IdsOf(inactiveHosts)
            deactivated == DrivesCalled("JrpcDeactivateDrives")
            removed == DrivesCalled("JrpcRemoveDrive")
        IN  /\ RemovedHosts \subseteq queue
            /\ DeactivatedHosts \subseteq acted
            /\ \A d \in deactivated : driveApiList[d].HostId \in acted
            /\ \A d \in removed : driveApiList[d].HostId \in queue \cup {0 - 1}
            /\ UnownedDrives \cap (deactivated \cup removed) = {}

\* a tick that deactivated a drive of a selected host and left alone a
\* should-be-active drive owned by a host that is not in the host list
C34_Witness ==
    /\ pc = "done"
    /\ SnapshotObtained
    /\ DrivesCalled("JrpcDeactivateDrives") # {}
    /\ \E d \in UnownedDrives : driveApiList[d].ShouldBeActive

\* a tick that deactivated the first host of the sorted list and made no
\* call for the second, although it is in scope
C34_WitnessBeyondTarget ==
    /\ pc = "done"
    /\ SnapshotObtained
    /\ Len(hostsList) = 2
    /\ numToDeactivate = 1
    /\ DeactivatedHosts = {hostsList[1].id}

(***************************************************************************)
(* Ticks of a role other than backend (checked under Spec)                 *)
(***************************************************************************)
\* C35: in a tick whose role is not backend the drive list is never asked
\* for, no host has a drive, no deactivate-drive and no remove-drive call is
\* made, and at the end of the tick every selected host has got its
\* deactivate-host call.
C35_ClientTick ==
    info.Role # "backend" =>
        /\ \A k \in DOMAIN calls : ~IsCall(k, "JrpcDrivesList")
        /\ driveApiList = <<>>
        /\ \A h \in DOMAIN hostsMap : DOMAIN hostsMap[h].drives = {}
        /\ \A k \in DOMAIN calls :
              ~IsCall(k, "JrpcDeactivateDrives") /\ ~IsCall(k, "JrpcRemoveDrive")
        /\ (pc = "done" /\ SnapshotObtained) => SelectedIds \subseteq DeactivatedHosts

\* a client tick that selected two hosts and called deactivate-host for both
C35_Witness ==
    /\ info.Role = "client"
    /\ pc = "done"
    /\ SnapshotObtained
    /\ numToDeactivate = 2
    /\ Cardinality(DeactivatedHosts) = 2

(***************************************************************************)
(* Progress over ticks (checked under SpecProgress)                        *)
(***************************************************************************)
\* C36, first part: with ticks run one after the other, every RPC
\* succeeding and the management plane applying every call at some later
\* time, a host that a tick selected is selected in every later tick whose
\* snapshot has it in a state other than INACTIVE.
C36_SelectedUntilInactive ==
    \A s \in fnIn.selected :
        (s.id \in DOMAIN hostsMap /\ hostsMap[s.id].State # "INACTIVE")
            => s.id \in SelectedIds

\* C36, second part: once a tick selected host h on the machine with address
\* ip, some tick lists the instance with that address for termination.
EventuallyListed(h, ip) ==
    []([id |-> h, ip |-> ip] \in fnIn.selected => <>(ip \in fnIn.terminated))
ProgressHosts == 1..(MaxSnapshotSize \div 2)
ProgressIps == {HgInstance(m).PrivateIp : m \in 1..GroupSize}
ListedInTheEnd ==
    \A h \in ProgressHosts : \A ip \in ProgressIps : EventuallyListed(h, ip)

(***************************************************************************)
(* Properties of the provisioned state machine (checked under              *)
(* SpecStateMachine)                                                       *)
(***************************************************************************)
EnteredStates == [k \in DOMAIN calls |-> calls[k].state]
IsPrefix(a, b) == Len(a) <= Len(b) /\ \A k \in DOMAIN a : a[k] = b[k]
MainLine == <<"HostGroupInfo", "Scale", "Terminate", "ErrorCheck">>

HoldingPermit == {i \in DOMAIN cur : cur[i] \in {"lock", "call", "unlock", "wgDone", "release"}}
HoldingLock == {i \in DOMAIN cur : cur[i] \in {"call", "unlock"}}
CallsFor(id) == {k \in DOMAIN calls : calls[k].arg = id}
FailedCalls == {k \in DOMAIN calls : ~calls[k].ok}
AllExited == pc = "returned" /\ \A i \in DOMAIN cur : cur[i] = "exited"

\* C38: in every interleaving of the goroutines some step can be taken until
\* the caller has returned and every goroutine has exited; at most
\* MaxPermits goroutines hold a permit and at most one the response lock;
\* no instance id gets a second call; and when the caller returns, each
\* instance id has got exactly one call and errs has one entry per failed
\* call.
C38_WorkersTerminate ==
    /\ ~AllExited => ENABLED NextTermination
    /\ Cardinality(HoldingPermit) = fnOut.taken
    /\ fnOut.taken <= MaxPermits
    /\ Cardinality(HoldingLock) <= 1
    /\ HoldingLock = (IF fnOut.responseLock = 0 THEN {} ELSE {fnOut.responseLock})
    /\ \A i \in DOMAIN fnIn : Cardinality(CallsFor(fnIn[i])) <= 1
    /\ Len(response.errs) = Cardinality(FailedCalls)
    /\ pc = "returned" =>
          /\ \A i \in DOMAIN fnIn : Cardinality(CallsFor(fnIn[i])) = 1
          /\ Len(calls) = Len(fnIn)

\* the caller has returned from a call with more instance ids than permits,
\* two of the calls failed, and one goroutine has yet to release its permit
C38_Witness ==
    /\ pc = "returned"
    /\ Len(fnIn) > MaxPermits
    /\ Cardinality(FailedCalls) = 2
    /\ Len(response.errs) = 2
    /\ \E i \in DOMAIN cur : cur[i] = "release"

\* the caller returns in the end
ReturnsInTheEnd == <>(pc = "returned")

SucceededIds == {calls[k].arg : k \in {j \in DOMAIN calls : calls[j].ok}}
UpdatedIds == {response.updated[k] : k \in DOMAIN response.updated}

\* C39: when the caller returns, updated holds exactly the instance ids
\* whose call succeeded, each once, and the entries of updated and errs
\* together number the instance ids given.
C39_UpdatedOnlySucceeded ==
    pc = "returned" =>
        /\ UpdatedIds = SucceededIds
        /\ Len(response.updated) = Cardinality(SucceededIds)
        /\ Len(response.updated) + Len(response.errs) = Len(fnIn)

(***************************************************************************)
(* Properties of repeated reconciliation (checked under SpecConverge)      *)
(***************************************************************************)
\* the run after a run that returned nil calls neither Create nor Update
Converged(runs) ==
    \A k \in 2..Len(runs) :
        runs[k - 1].err = "" => runs[k].method \notin {"Create", "Update"}

\* C40: for the ApiGateway and for the ApplicationLoadBalancer, the run of
\* EnsureResource that follows a run which returned no error calls neither
\* Create nor Update.
C40_Converges == Converged(fnIn.runs)

\* the same for the ApplicationLoadBalancer alone, together with what makes
\* it so: after a run that returned no error the three version tags equal
\* the target version, and the deployed version equals the target version
\* only when the three fetched versions do
AlbConverges ==
    fnIn.kind = "ApplicationLoadBalancer" =>
        /\ Converged(fnIn.runs)
        /\ (pc = "done" /\ err = "") =>
              /\ fnOut.Version = albVersion
              /\ fnOut.TargetGroupVersion = albVersion
              /\ fnOut.ListenerVersion = albVersion
        /\ albDeployedVersion(cur) = albVersion <=>
              /\ cur.Version = albVersion
              /\ cur.TargetGroupVersion = albVersion
              /\ cur.ListenerVersion = albVersion

\* a load balancer was updated in one run and left alone by the next
AlbConvergesWitness ==
    /\ fnIn.kind = "ApplicationLoadBalancer"
    /\ Len(fnIn.runs) = 2
    /\ fnIn.runs[1] = RunOutcome("Update", "")
    /\ fnIn.runs[2] = RunOutcome("", "")

====
